---- MODULE Spec2Model ----
(***************************************************************************)
(* A model of the ModSync client synchronisation engine                    *)
(* (src/client/api.py, src/client/utils.py).                               *)
(*                                                                         *)
(* File contents are modelled as pieces of byte streams: the record        *)
(* [n |-> k, t |-> s, o |-> a] is "the k bytes of stream s from offset     *)
(* a".  Two contents are equal exactly when they have the same length,     *)
(* stream and offset; bytes written behind a content that do not continue  *)
(* its stream at the right offset give a content of the stream "mixed",    *)
(* different from every piece of a served stream.  Sizes are real byte     *)
(* counts, so the size thresholds of the source are kept as they are.      *)
(***************************************************************************)
EXTENDS Integers, Sequences, FiniteSets, TLC

----------------------------------------------------------------------------
(* Bounds of the model *)

\* number of points at which a streamed body is observed (runs of chunks)
NumSteps == 2
\* seconds of the clock at which snapshots are made
MaxStamps == 7
\* requests of one batch, counted from its first, that the network may fail
\* or break
MaxFaults == 4
\* number of times the server's clock is read to have advanced
MaxTicks == 2

----------------------------------------------------------------------------
(* Program constants *)

chunk_size == 131072
max_workers == 4
SimpleLimit == 1 * 1024 * 1024
ParallelLimit == 50 * 1024 * 1024
PartialCheckEvery == 10 * 1024 * 1024
\* the server's "cache_duration", in seconds
cache_duration == 60

----------------------------------------------------------------------------
(* Paths, names, contents, hashes *)

Paths == {"a.jar", "b.jar"}
SortedPaths == <<"a.jar", "b.jar">>

\* a file name inside the root: <<relative path, suffix>>
Dest(p) == <<p, "">>
TempDest(p) == <<p, ".tmp">>
PartNames == <<".part0", ".part1", ".part2", ".part3">>
PartFile(p, i) == <<p, PartNames[i + 1]>>

EmptyMap == [x \in {} |-> 0]
Put(m, k, v) == [x \in (DOMAIN m) \cup {k} |-> IF x = k THEN v ELSE m[x]]
Del(m, k) == [x \in (DOMAIN m) \ {k} |-> m[x]]
DelAll(m, ks) == [x \in (DOMAIN m) \ ks |-> m[x]]

EmptyContent == [n |-> 0, t |-> "empty", o |-> 0]
\* the first n bytes of stream s
Content(n, s) == IF n <= 0 THEN EmptyContent ELSE [n |-> n, t |-> s, o |-> 0]
\* bytes a..b-1 of the stream s, as a response body and as file content
Segment(s, a, b) == [t |-> s, a |-> a, b |-> b]
Bytes(seg) ==
    IF seg.b <= seg.a THEN EmptyContent
    ELSE [n |-> seg.b - seg.a, t |-> seg.t, o |-> seg.a]
Concat(c1, c2) ==
    IF c2.n = 0 THEN c1
    ELSE IF c1.n = 0 THEN c2
    ELSE IF c1.t = c2.t /\ c1.t # "mixed" /\ c1.o + c1.n = c2.o
         THEN [n |-> c1.n + c2.n, t |-> c1.t, o |-> c1.o]
    ELSE [n |-> c1.n + c2.n, t |-> "mixed", o |-> 0]
\* a write that replaces what the file holds
AppendBytes_bad(c, seg) == Bytes(seg)

\* a file receives the bytes of a segment at its end
AppendBytes(c, seg) == Concat(c, Bytes(seg))

\* Python None (a missing cache entry, a JSON null hash)
NullHash == [digest |-> <<0, "none", 0>>, hex |-> "none"]
\* the "" that sha256() returns for a missing or unreadable file
NoDigest == [digest |-> <<0, "", 0>>, hex |-> "empty"]
\* hashlib's hexdigest(): lower-case hex of a collision-free digest
HexDigest(c) == [digest |-> <<c.n, c.t, c.o>>, hex |-> "lower"]

\* the same digest written with upper-case hex digits
UpperHex(h) == [h EXCEPT !.hex = "upper"]
\* equality of two hex strings without regard to the case of the digits
EqualIgnoreCase(h1, h2) == h1.digest = h2.digest

\* Python truthiness of a hash value: None and "" are falsy
Truthy(h) == h # NullHash /\ h # NoDigest

Exists(fsv, name) == name \in DOMAIN fsv
StatSize(fsv, name) == fsv[name].n

\* a file whose bytes cannot be read: open() raises PermissionError
Denied == [n |-> chunk_size, t |-> "denied", o |-> 0]
Readable(c) == c.t # "denied"

\* "" for a missing file and for one that cannot be read (except IOError)
sha256(fsv, name) ==
    IF ~Exists(fsv, name) THEN NoDigest
    ELSE IF ~Readable(fsv[name]) THEN NoDigest
    ELSE HexDigest(fsv[name])

verify_file_integrity_bad(fsv, name, expected_hash) ==
    Exists(fsv, name)

verify_file_integrity(fsv, name, expected_hash) ==
    IF ~Exists(fsv, name) THEN FALSE
    ELSE sha256(fsv, name) = expected_hash

----------------------------------------------------------------------------
(* The persisted hash cache: .modsync_cache.json and its .bak copy *)

\* JSON values of the cache object: null for None, a string for a hash
JsonNull == [json |-> "null", s |-> NullHash]
JsonString(h) == [json |-> "string", s |-> h]
\* json.dump(data, f): the members of the written object
json_dump(data) ==
    [k \in DOMAIN data |-> IF data[k] = NullHash THEN JsonNull
                           ELSE JsonString(data[k])]

\* a parser that reads null as the empty string
json_load_bad(text) ==
    [k \in DOMAIN text |-> IF text[k].json = "null" THEN NoDigest ELSE text[k].s]

\* json.load(f) of an object
json_load(text) ==
    [k \in DOMAIN text |-> IF text[k].json = "null" THEN NullHash ELSE text[k].s]

\* what a cache file can be: absent; the JSON text of an object ("dict");
\* JSON text of another value ("nondict"); text that is not JSON
\* ("corrupt"); bytes that are not UTF-8 ("undecodable"); a file that
\* cannot be opened ("unreadable")
AbsentDoc == [kind |-> "absent", d |-> EmptyMap]
DictDoc(d) == [kind |-> "dict", d |-> json_dump(d)]
OtherDoc(kind) == [kind |-> kind, d |-> EmptyMap]

\* results of load_cache: a returned value, or the exception that leaves it
Returned(kind, d) == [kind |-> kind, d |-> d]
Raised(e) == [kind |-> e, d |-> EmptyMap]
IsRaised(r) == r.kind \notin {"dict", "nondict"}

load_cache(primary, bak) ==
    IF primary.kind = "absent" THEN Returned("dict", EmptyMap)
    ELSE IF primary.kind = "dict" THEN Returned("dict", json_load(primary.d))
    ELSE IF primary.kind = "nondict" THEN Returned("dict", EmptyMap)
    ELSE IF primary.kind = "undecodable"
    THEN \* f.read() raises UnicodeDecodeError, a ValueError that is neither
         \* JSONDecodeError nor IOError/OSError
         Raised("UnicodeDecodeError")
    ELSE \* corrupt: JSONDecodeError; unreadable: OSError; the backup copy is
         \* tried under a bare except
         IF bak.kind = "dict" THEN Returned("dict", json_load(bak.d))
         ELSE IF bak.kind = "nondict" THEN Returned("nondict", EmptyMap)
         ELSE Returned("dict", EmptyMap)

CacheGet(c, name) == IF name \in DOMAIN c THEN c[name] ELSE NullHash

----------------------------------------------------------------------------
VARIABLES
    rootExists,        \* the synchronised directory exists
    fs,                \* files in the root: name -> content
    cacheFile,         \* .modsync_cache.json
    cacheBak,          \* .modsync_cache.bak
    backups,           \* BACKUPS_DIR: stamp -> snapshot
    lastBackup,        \* .modsync_last_backup.txt (0: no pointer)
    served,            \* files the server serves: path -> content
    manifest,          \* GET /manifest: name -> [size, hash]
    acceptRanges,      \* the server honours Range requests
    cancel_requested,  \* ModSyncAPI.cancel_requested
    pc,                \* position of sync()
    dry_run,           \* argument of the running sync()
    cache,             \* sync(): the in-memory cache dict
    to_delete,         \* sync(): local_files - server_files
    to_update,         \* sync(): files to download
    unchanged,         \* manifest entries the diff loop did not add
    pendingDelete,     \* rest of the "for f in to_delete" loop
    cur,               \* the file being transferred
    xfer,              \* the single-stream transfer, until its file is checked
    parts,             \* state of the part threads of a parallel transfer
    outcome,           \* how the last sync() call ended
    exc,               \* class of the exception the last sync() call raised
    \* history of the running pass
    prevSuccess,       \* the call before this one ended in success
    preRoot,           \* rootExists when the pass began
    preFs,             \* fs when the pass began
    preCacheFile,      \* cacheFile when the pass began
    deleted,           \* to_delete entries whose unlink has run
    started,           \* to_update entries whose transfer has begun
    verified,          \* to_update entries the fetch loop has downloaded and verified
    results,           \* DownloadManager: relpath -> reported success
    strategy,          \* DownloadManager.strategy: the settings of the profile
    pool,              \* position of the thread that called download_files
    queue,             \* _download_parallel: the Queue of file_info
    unfinished,        \* _download_parallel: unfinished tasks of the Queue
    threads,           \* the threads of one batch; 0 is the calling thread
    hist,              \* per file of the batch: times taken, attempts made
    reply,             \* the dict download_files returned
    MANIFEST_LOCK,     \* server: the thread that holds the manifest lock (0: none)
    MANIFEST_TIMESTAMP,\* server: time the cached manifest was generated
    clock,             \* server: time.time()
    callers            \* server: position of each request thread

vars == <<rootExists, fs, cacheFile, cacheBak, backups, lastBackup, served,
          manifest, acceptRanges, cancel_requested, pc, dry_run, cache,
          to_delete, to_update, unchanged, pendingDelete, cur, xfer,
          parts, outcome, exc, prevSuccess, preRoot, preFs, preCacheFile,
          deleted, started, verified, results, strategy, pool, queue,
          unfinished, threads, hist, reply, MANIFEST_LOCK,
          MANIFEST_TIMESTAMP, clock, callers>>

poolVars == <<strategy, pool, queue, unfinished, threads, hist, reply>>
srvVars == <<MANIFEST_LOCK, MANIFEST_TIMESTAMP, clock, callers>>

envVars == <<served, manifest, acceptRanges>>
diskVars == <<rootExists, cacheFile, cacheBak, backups, lastBackup>>
diffVars == <<to_delete, to_update, unchanged>>
passVars == <<dry_run, prevSuccess, preRoot, preFs, preCacheFile>>

NoFile == <<"", "">>
\* range: the offset sent in the Range header (0: no header);
\* base: what the temp file held when the transfer began to append to it
NoXfer == [mode |-> "none", from |-> 0, downloaded |-> 0, total |-> 0,
           seg |-> Segment("empty", 0, 0), range |-> 0, base |-> EmptyContent]

----------------------------------------------------------------------------
(* Initial states: a freshly constructed ModSyncAPI, a server and a root   *)

\* the server's build_manifest gives a null hash to files of 50 MiB and more
Tiers == {"zero", "tiny", "tinynull", "medium", "huge", "hugeN", "hugenull"}
TierSize(tier) ==
    IF tier = "zero" THEN 0
    ELSE IF tier \in {"tiny", "tinynull"} THEN 2 * chunk_size
    ELSE IF tier = "medium" THEN 2 * SimpleLimit
    ELSE 2 * ParallelLimit

\* how one path stands on the server and in the root
PathCases ==
    [remote : {FALSE}, local : {"absent"}, cached : {"none"}]
    \cup [remote : {FALSE}, local : {"junk"}, cached : {"none", "stale"}]
    \cup [remote : {TRUE}, local : {"absent", "good", "samesize", "othersize"},
          cached : {"none", "good"}]

ServedContent(tier, p) == Content(TierSize(tier), p)
JunkContent == Content(chunk_size, "junk")
LocalContent(tier, p, kind) ==
    IF kind = "good" THEN ServedContent(tier, p)
    ELSE IF kind = "samesize" THEN Content(TierSize(tier), "old")
    ELSE IF kind = "othersize" THEN Content(TierSize(tier) + chunk_size, "old")
    ELSE JunkContent
ManifestHash(tier, p) ==
    IF tier \in {"tinynull", "hugenull"} THEN NullHash
    ELSE HexDigest(ServedContent(tier, p))

InitServed(tier, sc) ==
    [p \in {q \in Paths : sc[q].remote} |-> ServedContent(tier, p)]
InitManifest(tier, sc) ==
    [name \in {Dest(q) : q \in {q \in Paths : sc[q].remote}} |->
        [size |-> TierSize(tier), hash |-> ManifestHash(tier, name[1])]]
InitFs(tier, sc) ==
    [name \in {Dest(q) : q \in {q \in Paths : sc[q].local # "absent"}} |->
        LocalContent(tier, name[1], sc[name[1]].local)]
InitCacheDict(tier, sc) ==
    [name \in {Dest(q) : q \in {q \in Paths : sc[q].cached # "none"}} |->
        IF sc[name[1]].cached = "good"
        THEN HexDigest(ServedContent(tier, name[1]))
        ELSE HexDigest(JunkContent)]

----------------------------------------------------------------------------
(* DownloadManager (src/modsync/client/download/manager.py) and the server's *)
(* manifest cache, as constructed                                           *)

\* DownloadStrategy.get_manual_strategies(): the settings the manager reads
ManualStrategies ==
    [stable_sequential |->
         [max_workers |-> 1, retry_count |-> 15, retry_delay |-> 5],
     balanced_adaptive |->
         [max_workers |-> 6, tiny_file_workers |-> 8, small_file_workers |-> 4,
          medium_file_workers |-> 2, retry_count |-> 5],
     fast_optimized |->
         [max_workers |-> 15, tiny_file_workers |-> 20, small_file_workers |-> 8,
          medium_file_workers |-> 4, retry_count |-> 3],
     gaming_priority |-> [critical_workers |-> 8]]

ThreadIds == 0..Cardinality(Paths)
PoolThreads == ThreadIds \ {0}
NoResp == [status |-> 0, seg |-> Segment("empty", 0, 0), hasLength |-> FALSE]
NoWorker == [st |-> "unborn", file |-> NoFile, attempt |-> 0, delay |-> 0,
             mode |-> "wb", offset |-> 0, had |-> 0, resp |-> NoResp]
NoReply == [keys |-> {}, success |-> FALSE, cancelled |-> FALSE,
            results |-> EmptyMap]
NoPool == [phase |-> "none", at |-> "none", spawned |-> 0]

\* DownloadManager(strategy) for a profile of the manual strategies
InitManager(key) ==
    /\ strategy = ManualStrategies[key]
    /\ pool = NoPool
    /\ queue = <<>>
    /\ unfinished = 0
    /\ threads = [w \in ThreadIds |-> NoWorker]
    /\ hist = EmptyMap
    /\ reply = NoReply

\* the server after its start: the lifespan handler has generated the
\* manifest, no request is being handled; the clock counts from that moment
Callers == {1, 2}
IdleCaller == [at |-> "idle", route |-> "none", got |-> "none"]
InitServer ==
    /\ MANIFEST_LOCK = 0
    /\ MANIFEST_TIMESTAMP = 0
    /\ clock = 0
    /\ callers = [c \in Callers |-> IdleCaller]

\* a constructed ModSyncAPI on which sync() has not been called
InitSync ==
    /\ cancel_requested = FALSE
    /\ pc = "idle"
    /\ dry_run = FALSE
    /\ cache = EmptyMap
    /\ to_delete = {}
    /\ to_update = {}
    /\ unchanged = {}
    /\ pendingDelete = {}
    /\ cur = NoFile
    /\ xfer = NoXfer
    /\ parts = EmptyMap
    /\ outcome = "none"
    /\ exc = "none"
    /\ prevSuccess = FALSE
    /\ preRoot = rootExists
    /\ preFs = fs
    /\ preCacheFile = cacheFile
    /\ deleted = {}
    /\ started = {}
    /\ verified = {}
    /\ results = EmptyMap
    /\ InitManager("balanced_adaptive")
    /\ InitServer

Init ==
    \E tier \in Tiers : \E sc \in [Paths -> PathCases] : \E re \in BOOLEAN :
        /\ rootExists = re
        /\ re = FALSE => \A q \in Paths : sc[q].local = "absent" /\ sc[q].cached = "none"
        /\ fs = InitFs(tier, sc)
        /\ cacheFile = IF InitCacheDict(tier, sc) = EmptyMap THEN AbsentDoc
                       ELSE DictDoc(InitCacheDict(tier, sc))
        /\ cacheBak = AbsentDoc
        /\ backups = EmptyMap
        /\ lastBackup = 0
        /\ served = InitServed(tier, sc)
        /\ manifest = InitManifest(tier, sc)
        /\ acceptRanges = (tier # "hugeN")
        /\ InitSync

----------------------------------------------------------------------------
(* The file server (GET /file/{path}, HEAD /file/{path})                   *)

\* a < 0: no Range header; e < 0: open-ended range "bytes=a-".  The
\* HTTPException(416) that handle_range_request raises for a range it cannot
\* satisfy is raised inside its own try block, caught by "except Exception"
\* and replaced by HTTPException(500)
ServerGet(p, a, e) ==
    IF p \notin DOMAIN served
    THEN [status |-> 404, seg |-> Segment("empty", 0, 0), hasLength |-> FALSE]
    ELSE LET c == served[p] IN
         IF a < 0 \/ ~acceptRanges
         THEN [status |-> 200, seg |-> Segment(c.t, 0, c.n), hasLength |-> FALSE]
         ELSE IF a >= c.n
         THEN [status |-> 500, seg |-> Segment("empty", 0, 0), hasLength |-> FALSE]
         ELSE LET end == IF e < 0 \/ e >= c.n THEN c.n - 1 ELSE e IN
              IF a > end
              THEN [status |-> 500, seg |-> Segment("empty", 0, 0), hasLength |-> FALSE]
              ELSE [status |-> 206, seg |-> Segment(c.t, a, end + 1), hasLength |-> TRUE]

\* what the network does to a response
Network == {"ok", "error", "corrupt"}
\* the faults injected into the ranged requests of a parallel transfer:
\* only the first range may carry foreign bytes
PartNetwork(i) == IF i = 0 THEN Network ELSE {"ok", "error"}
Delivered(resp, net) ==
    IF net = "corrupt" THEN [resp EXCEPT !.seg.t = "bad"] ELSE resp

----------------------------------------------------------------------------
(* BackupVault: create_backup, rollback from the last snapshot             *)

BackupHashLimit == 100 * 1024 * 1024

\* the files create_backup puts into file_groups, in the order of "files"
Grouped(fsv, files) ==
    SelectSeq(files, LAMBDA rel : /\ Exists(fsv, rel)
                                  /\ StatSize(fsv, rel) < BackupHashLimit
                                  /\ Truthy(sha256(fsv, rel)))
\* group["files"][0] of every hash group: the only paths in manifest["files"]
FirstOfGroup(fsv, g) ==
    {g[i] : i \in {j \in 1..Len(g) :
                     \A k \in 1..(j - 1) : sha256(fsv, g[k]) # sha256(fsv, g[j])}}
Range(q) == {q[i] : i \in 1..Len(q)}

create_backup(fsv, files) ==
    LET g == Grouped(fsv, files)
        firsts == FirstOfGroup(fsv, g)
    IN [files |-> [rel \in Range(g) |-> fsv[rel]],
        entries |-> firsts,
        hardlinked_files |-> Range(g) \ firsts,
        hasManifest |-> TRUE,
        manifestDoc |-> "ok"]

\* the directory name of the snapshot made at second t:
\* datetime.now().strftime("%Y-%m-%d_%H-%M-%S"), as its parts
strftime(t) == <<[k |-> "date", v |-> t], [k |-> "_", v |-> 0],
                 [k |-> "time", v |-> t]>>
\* item.name.count('_')
CountUnderscores(name) == Cardinality({i \in DOMAIN name : name[i].k = "_"})
\* strptime('_'.join(name.split('_')[:2]), "%Y-%m-%d_%H-%M-%S") succeeds
ParsesAsStamp(name) ==
    /\ Len(name) >= 3
    /\ name[1].k = "date" /\ name[2].k = "_" /\ name[3].k = "time"

max_backups == 5

\* snapshot directories are keyed by the second they were made in; a
\* directory's mtime is that second
cleanup_old_backups(bk) ==
    LET backup_dirs == {s \in DOMAIN bk : /\ CountUnderscores(strftime(s)) >= 2
                                          /\ ParsesAsStamp(strftime(s))}
        old == {s \in backup_dirs :
                   Cardinality({u \in backup_dirs : u > s}) >= max_backups}
    IN [s \in (DOMAIN bk) \ old |-> bk[s]]

get_last_backup(bk, last) ==
    IF last # 0 /\ last \in DOMAIN bk THEN last ELSE 0

\* what backup_manifest.json can be: "ok" (written by create_backup), text
\* that is not JSON ("corrupt"), bytes that are not UTF-8 ("undecodable"),
\* JSON text of a value that is not an object ("nondict")
ManifestDocs == {"ok", "corrupt", "undecodable", "nondict"}

\* the exception that leaves rollback: the handler at the end catches
\* JSONDecodeError, KeyError, IOError and OSError only
rollback_exc(bk, last) ==
    LET backup == get_last_backup(bk, last) IN
    IF backup = 0 THEN "none"
    ELSE IF ~bk[backup].hasManifest THEN "none"
    ELSE IF bk[backup].manifestDoc = "undecodable" THEN "UnicodeDecodeError"
    ELSE IF bk[backup].manifestDoc = "nondict" THEN "TypeError"
    ELSE "none"

\* rollback in which shutil.copy2 fails for the files in failing
restore(fsv, bk, last, failing) ==
    LET backup == get_last_backup(bk, last) IN
    IF backup = 0 THEN fsv
    ELSE IF ~bk[backup].hasManifest THEN fsv
    ELSE IF bk[backup].manifestDoc # "ok" THEN fsv
    ELSE LET snap == bk[backup]
             R == {e \in snap.entries : e \in DOMAIN snap.files /\ e \notin failing}
         IN [name \in (DOMAIN fsv) \cup R |->
                IF name \in R THEN snap.files[name] ELSE fsv[name]]

rollback(fsv, bk, last) == restore(fsv, bk, last, {})

----------------------------------------------------------------------------
(* sync(): manifest, cache, scan, diff                                     *)

local_files(fsv) == DOMAIN fsv
server_files(man) == DOMAIN man

\* the comparison without the hash cache
NeedsUpdate_bad(fsv, man, c, f) ==
    \/ ~Exists(fsv, f)
    \/ StatSize(fsv, f) # man[f].size

NeedsUpdate(fsv, man, c, f) ==
    \/ ~Exists(fsv, f)
    \/ StatSize(fsv, f) # man[f].size
    \/ CacheGet(c, f) # man[f].hash

\* the listing without the subtraction of the server's paths
ToDelete_bad(fsv, man) == local_files(fsv)

ToDelete(fsv, man) == local_files(fsv) \ server_files(man)
ToUpdate(fsv, man, c) == {f \in DOMAIN man : NeedsUpdate(fsv, man, c, f)}
Unchanged(fsv, man, c) ==
    {f \in DOMAIN man : Exists(fsv, f) /\ StatSize(fsv, f) = man[f].size
                        /\ CacheGet(c, f) = man[f].hash}

\* the exception leaves sync() through "except Exception: rollback(); raise"
Raise(fsv, st, e) ==
    /\ fs' = rollback(fsv, backups, lastBackup)
    /\ pc' = "idle"
    /\ outcome' = "failed"
    /\ exc' = e
    /\ cur' = NoFile
    /\ xfer' = NoXfer
    /\ parts' = EmptyMap
    /\ cache' = EmptyMap
    /\ pendingDelete' = {}
    /\ started' = st
    /\ UNCHANGED <<poolVars, srvVars, envVars, diskVars, diffVars, results, passVars, cancel_requested,
                   deleted, verified>>

SyncCall(dry) ==
    /\ pc = "idle"
    /\ rootExists' = TRUE
    /\ pc' = "manifest"
    /\ dry_run' = dry
    /\ prevSuccess' = (outcome = "success")
    /\ outcome' = "running"
    /\ exc' = "none"
    /\ preRoot' = rootExists
    /\ preFs' = fs
    /\ preCacheFile' = cacheFile
    /\ to_delete' = {}
    /\ to_update' = {}
    /\ unchanged' = {}
    /\ deleted' = {}
    /\ started' = {}
    /\ verified' = {}
    /\ UNCHANGED <<poolVars, srvVars, envVars, fs, cacheFile, cacheBak, backups, lastBackup,
                   cancel_requested, cache, pendingDelete, cur, xfer, parts,
                   results>>

\* get_manifest raises ConnectionError (the request failed) or ValueError (the
\* body is not a JSON object); the call is outside the try of sync()
ManifestFail(e) ==
    /\ pc = "manifest"
    /\ pc' = "idle"
    /\ outcome' = "manifest_error"
    /\ exc' = e
    /\ UNCHANGED <<poolVars, srvVars, envVars, diskVars, diffVars, results, passVars, fs, cancel_requested,
                   cache, pendingDelete, cur, xfer, parts, deleted, started,
                   verified>>

\* the comparison going to the downloads with the deletions still pending
Diff_bad ==
    /\ pc = "manifest"
    /\ LET loaded == load_cache(cacheFile, cacheBak)
           c == loaded.d
           del == ToDelete(fs, manifest)
       IN IF IsRaised(loaded)
          THEN \* load_cache is called outside the try of sync()
               /\ pc' = "idle"
               /\ outcome' = "cache_error"
               /\ exc' = loaded.kind
               /\ UNCHANGED <<poolVars, srvVars, diffVars, cancel_requested, cache, pendingDelete>>
          ELSE /\ to_delete' = del
               /\ to_update' = ToUpdate(fs, manifest, c)
               /\ unchanged' = Unchanged(fs, manifest, c)
               /\ UNCHANGED exc
               /\ IF dry_run
                  THEN /\ pc' = "idle"
                       /\ outcome' = "dry_run"
                       /\ UNCHANGED <<poolVars, srvVars, cancel_requested, cache, pendingDelete>>
                  ELSE /\ cancel_requested' = FALSE
                       /\ cache' = c
                       /\ pendingDelete' = del
                       /\ pc' = "fetching"
                       /\ UNCHANGED outcome
    /\ UNCHANGED <<poolVars, srvVars, envVars, diskVars, passVars, fs, cur, xfer, parts, deleted,
                   started, verified, results>>

Diff ==
    /\ pc = "manifest"
    /\ LET loaded == load_cache(cacheFile, cacheBak)
           c == loaded.d
           del == ToDelete(fs, manifest)
       IN IF IsRaised(loaded)
          THEN \* load_cache is called outside the try of sync()
               /\ pc' = "idle"
               /\ outcome' = "cache_error"
               /\ exc' = loaded.kind
               /\ UNCHANGED <<poolVars, srvVars, diffVars, cancel_requested, cache, pendingDelete>>
          ELSE /\ to_delete' = del
               /\ to_update' = ToUpdate(fs, manifest, c)
               /\ unchanged' = Unchanged(fs, manifest, c)
               /\ UNCHANGED exc
               /\ IF dry_run
                  THEN /\ pc' = "idle"
                       /\ outcome' = "dry_run"
                       /\ UNCHANGED <<poolVars, srvVars, cancel_requested, cache, pendingDelete>>
                  ELSE /\ cancel_requested' = FALSE
                       /\ cache' = c
                       /\ pendingDelete' = del
                       /\ pc' = IF del = {} THEN "fetching" ELSE "deleting"
                       /\ UNCHANGED outcome
    /\ UNCHANGED <<poolVars, srvVars, envVars, diskVars, passVars, fs, cur, xfer, parts, deleted,
                   started, verified, results>>

\* the loop body that forgets the file without unlinking it
DeleteOne_bad(f) ==
    /\ pc = "deleting"
    /\ f \in pendingDelete
    /\ cache' = Del(cache, f)
    /\ deleted' = deleted \cup {f}
    /\ pendingDelete' = pendingDelete \ {f}
    /\ pc' = IF pendingDelete' = {} THEN "fetching" ELSE "deleting"
    /\ UNCHANGED <<poolVars, srvVars, envVars, diskVars, diffVars, results, passVars, exc, fs, cancel_requested,
                   cur, xfer, parts, outcome, started, verified>>

DeleteOne(f) ==
    /\ pc = "deleting"
    /\ f \in pendingDelete
    /\ fs' = Del(fs, f)
    /\ cache' = Del(cache, f)
    /\ deleted' = deleted \cup {f}
    /\ pendingDelete' = pendingDelete \ {f}
    /\ pc' = IF pendingDelete' = {} THEN "fetching" ELSE "deleting"
    /\ UNCHANGED <<poolVars, srvVars, envVars, diskVars, diffVars, results, passVars, exc, cancel_requested,
                   cur, xfer, parts, outcome, started, verified>>

\* unlink() raises (the file is locked or not removable)
DeleteFail(f) ==
    /\ pc = "deleting"
    /\ f \in pendingDelete
    /\ Raise(fs, started, "OSError")

----------------------------------------------------------------------------
(* download_file_smart: the strategy for one file                          *)

Strategy(fsv, f, file_size, supports_ranges) ==
    IF file_size <= 0 THEN "invalid"
    ELSE IF Exists(fsv, f)
         THEN IF StatSize(fsv, f) = file_size THEN "skip" ELSE "resume"
    ELSE IF file_size < SimpleLimit THEN "simple"
    ELSE IF file_size < ParallelLimit THEN "resume"
    ELSE IF supports_ranges THEN "parallel"
    ELSE "resume"

Min(S) == CHOOSE x \in S : \A y \in S : x <= y
Max(S) == CHOOSE x \in S : \A y \in S : x >= y

\* "for f in sorted(to_update)": the next file of the loop
Remaining == to_update \ verified
NextFile ==
    Dest(SortedPaths[Min({i \in 1..Len(SortedPaths) :
                             Dest(SortedPaths[i]) \in Remaining})])

----------------------------------------------------------------------------
(* Streaming a response body, observed at NumSteps points and wherever the *)
(* resumable transfer runs its partial hash check                          *)

Grid(from, end) ==
    {from + ((((i * (end - from)) \div NumSteps) \div chunk_size) * chunk_size) :
        i \in 1..(NumSteps - 1)}
CheckPoints(from, end) ==
    {m \in {k * PartialCheckEvery : k \in 1..(end \div PartialCheckEvery)} :
        (m - from) % chunk_size = 0}
NextStop(from, d, end, withCheck) ==
    Min({c \in Grid(from, end) \cup {end}
                \cup (IF withCheck THEN CheckPoints(from, end) ELSE {}) : c > d})

\* value of "downloaded" when the body has been read to its end
EndOfBody(x) == x.from + (x.seg.b - x.seg.a)
\* the file the running transfer writes to
Target(x, f) == IF x.mode = "simple" THEN f ELSE TempDest(f[1])
\* what the transfer leaves behind when an exception leaves it:
\* download_file unlinks dest, download_file_resume leaves the temp file
\* (its handler raises NameError at logger.warning before any cleanup)
AfterException(x, fsv, f) == IF x.mode = "simple" THEN Del(fsv, f) ELSE fsv

BeginSkip ==
    /\ pc = "fetching"
    /\ Remaining # {}
    /\ LET f == NextFile IN
        /\ Strategy(fs, f, manifest[f].size, FALSE) = "skip"
        /\ cur' = f
        /\ started' = started \cup {f}
    /\ pc' = "verify"
    /\ UNCHANGED <<poolVars, srvVars, envVars, diskVars, diffVars, results, passVars, exc, fs, cancel_requested,
                   cache, pendingDelete, xfer, parts, outcome, deleted,
                   verified>>

BeginInvalid ==
    /\ pc = "fetching"
    /\ Remaining # {}
    /\ LET f == NextFile IN
        /\ Strategy(fs, f, manifest[f].size, FALSE) = "invalid"
        /\ Raise(fs, started \cup {f}, "ValueError")

\* download_file up to the first chunk
BeginSimple(net) ==
    /\ pc = "fetching"
    /\ Remaining # {}
    /\ LET f == NextFile
           resp == Delivered(ServerGet(f[1], -1, -1), net)
       IN
        /\ Strategy(fs, f, manifest[f].size, FALSE) = "simple"
        /\ IF net = "error" \/ resp.status >= 400
           THEN Raise(Del(fs, f), started \cup {f}, "RequestException")
           ELSE /\ fs' = Put(fs, f, EmptyContent)
                /\ xfer' = [mode |-> "simple", from |-> 0, downloaded |-> 0,
                            total |-> IF resp.hasLength
                                      THEN resp.seg.b - resp.seg.a ELSE 0,
                            seg |-> resp.seg, range |-> 0,
                            base |-> EmptyContent]
                /\ cur' = f
                /\ started' = started \cup {f}
                /\ pc' = "streaming"
                /\ UNCHANGED <<poolVars, srvVars, envVars, diskVars, diffVars, results, passVars, exc,
                               cancel_requested, cache, pendingDelete, parts,
                               outcome, deleted, verified>>

\* what leaves download_file_resume when its "except (RequestException,
\* IOError, OSError)" handler runs: the handler's first statement uses the
\* undefined name "logger"
HandlerError == "NameError"

\* the transfer without the "r.status_code != 206" restart
StartResume_bad(f, net) ==
    LET temp == TempDest(f[1])
        downloaded0 == IF Exists(fs, temp) THEN StatSize(fs, temp) ELSE 0
        resp == Delivered(ServerGet(f[1], IF downloaded0 > 0 THEN downloaded0 ELSE -1, -1), net)
        restart == FALSE
        downloaded == IF restart THEN 0 ELSE downloaded0
        fs1 == IF restart THEN Del(fs, temp) ELSE fs
        remaining == IF resp.hasLength THEN resp.seg.b - resp.seg.a
                     ELSE manifest[f].size - downloaded
    IN
    IF net = "error" \/ resp.status >= 400
    THEN Raise(fs, started \cup {f}, HandlerError)
    ELSE /\ fs' = IF downloaded > 0 THEN fs1 ELSE Put(fs1, temp, EmptyContent)
         /\ xfer' = [mode |-> "resume", from |-> downloaded,
                     downloaded |-> downloaded, total |-> downloaded + remaining,
                     seg |-> resp.seg, range |-> downloaded0,
                     base |-> IF downloaded > 0 THEN fs[temp] ELSE EmptyContent]
         /\ cur' = f
         /\ started' = started \cup {f}
         /\ pc' = "streaming"
         /\ UNCHANGED <<poolVars, srvVars, envVars, diskVars, diffVars, results, passVars, exc, cancel_requested,
                        cache, pendingDelete, parts, outcome, deleted, verified>>

\* download_file_resume up to the first chunk (one attempt: a failed attempt
\* ends in NameError, so the retry loop never runs a second one)
StartResume(f, net) ==
    LET temp == TempDest(f[1])
        downloaded0 == IF Exists(fs, temp) THEN StatSize(fs, temp) ELSE 0
        resp == Delivered(ServerGet(f[1], IF downloaded0 > 0 THEN downloaded0 ELSE -1, -1), net)
        restart == downloaded0 > 0 /\ resp.status # 206
        downloaded == IF restart THEN 0 ELSE downloaded0
        fs1 == IF restart THEN Del(fs, temp) ELSE fs
        remaining == IF resp.hasLength THEN resp.seg.b - resp.seg.a
                     ELSE manifest[f].size - downloaded
    IN
    IF net = "error" \/ resp.status >= 400
    THEN Raise(fs, started \cup {f}, HandlerError)
    ELSE /\ fs' = IF downloaded > 0 THEN fs1 ELSE Put(fs1, temp, EmptyContent)
         /\ xfer' = [mode |-> "resume", from |-> downloaded,
                     downloaded |-> downloaded, total |-> downloaded + remaining,
                     seg |-> resp.seg, range |-> downloaded0,
                     base |-> IF downloaded > 0 THEN fs[temp] ELSE EmptyContent]
         /\ cur' = f
         /\ started' = started \cup {f}
         /\ pc' = "streaming"
         /\ UNCHANGED <<poolVars, srvVars, envVars, diskVars, diffVars, results, passVars, exc, cancel_requested,
                        cache, pendingDelete, parts, outcome, deleted, verified>>

BeginResume(headOk, net) ==
    /\ pc = "fetching"
    /\ Remaining # {}
    /\ Strategy(fs, NextFile, manifest[NextFile].size, headOk /\ acceptRanges) = "resume"
    /\ StartResume(NextFile, net)

\* one run of chunks is written: "f.write(chunk); downloaded += len(chunk)"
ChunkWrite ==
    /\ pc = "streaming"
    /\ xfer.downloaded < EndOfBody(xfer)
    /\ ~cancel_requested
    /\ LET withCheck == xfer.mode = "resume" /\ Truthy(manifest[cur].hash)
           d2 == NextStop(xfer.from, xfer.downloaded, EndOfBody(xfer), withCheck)
           piece == Segment(xfer.seg.t, xfer.seg.a + (xfer.downloaded - xfer.from),
                            xfer.seg.a + (d2 - xfer.from))
           target == Target(xfer, cur)
           fs2 == Put(fs, target, AppendBytes(fs[target], piece))
       IN IF withCheck /\ d2 % PartialCheckEvery = 0
          THEN \* self._check_partial_hash does not exist: AttributeError
               Raise(fs2, started, "AttributeError")
          ELSE /\ fs' = fs2
               /\ xfer' = [xfer EXCEPT !.downloaded = d2]
               /\ UNCHANGED <<poolVars, srvVars, envVars, diskVars, diffVars, results, passVars, exc,
                              cancel_requested, pc, cache, pendingDelete, cur,
                              parts, outcome, deleted, started, verified>>

\* "if self.cancel_requested: raise Exception(...)" at a chunk boundary
ChunkCancel ==
    /\ pc = "streaming"
    /\ xfer.downloaded < EndOfBody(xfer)
    /\ cancel_requested
    /\ Raise(AfterException(xfer, fs, cur), started, "Exception")

\* the connection breaks while the body is read
StreamBreak ==
    /\ pc = "streaming"
    /\ xfer.downloaded < EndOfBody(xfer)
    /\ Raise(AfterException(xfer, fs, cur), started,
             IF xfer.mode = "simple" THEN "RequestException" ELSE HandlerError)

\* the body ends early without an error
StreamTruncate ==
    /\ pc = "streaming"
    /\ xfer.downloaded < EndOfBody(xfer)
    /\ xfer' = [xfer EXCEPT !.seg.b = xfer.seg.a + (xfer.downloaded - xfer.from)]
    /\ UNCHANGED <<poolVars, srvVars, envVars, diskVars, diffVars, results, passVars, exc, fs, cancel_requested,
                   pc, cache, pendingDelete, cur, parts, outcome, deleted,
                   started, verified>>

\* the body is exhausted: download_file returns, download_file_resume runs
\* its final checks and renames the temp file
Finish ==
    /\ pc = "streaming"
    /\ xfer.downloaded = EndOfBody(xfer)
    /\ LET temp == TempDest(cur[1])
           h == manifest[cur].hash
       IN IF xfer.mode = "simple"
          THEN /\ pc' = "verify"
               /\ UNCHANGED <<poolVars, srvVars, envVars, diskVars, diffVars, results, passVars, exc, fs,
                              cancel_requested, cache, pendingDelete, cur,
                              xfer, parts, outcome, deleted, started, verified>>
          ELSE IF \/ (Truthy(h) /\ ~verify_file_integrity(fs, temp, h))
                  \/ xfer.downloaded # xfer.total
          THEN Raise(fs, started, HandlerError)
          ELSE /\ fs' = Put(Del(fs, temp), cur, fs[temp])
               /\ pc' = "verify"
               /\ UNCHANGED <<poolVars, srvVars, envVars, diskVars, diffVars, results, passVars, exc,
                              cancel_requested, cache, pendingDelete, cur,
                              xfer, parts, outcome, deleted, started, verified>>

----------------------------------------------------------------------------
(* download_file_parallel: one thread per byte range                       *)

\* max(2, min(self.max_workers, file_size // (50 * 1024 * 1024)))
part_count_with(workers, file_size) ==
    Max({2, Min({workers, file_size \div ParallelLimit})})
\* the largest value the settings dialog accepts for max_workers
max_workers_limit == 16
part_count(file_size) == part_count_with(max_workers, file_size)
part_size(file_size) == file_size \div part_count(file_size)
PartStart(file_size, i) == i * part_size(file_size)
\* ranges that end one byte too late
PartEnd_bad(file_size, i) ==
    IF i = part_count(file_size) - 1 THEN file_size - 1
    ELSE (i + 1) * part_size(file_size)

PartEnd(file_size, i) ==
    IF i = part_count(file_size) - 1 THEN file_size - 1
    ELSE (i + 1) * part_size(file_size) - 1
PartFiles(f, n) == {PartFile(f[1], i) : i \in 0..(n - 1)}

BeginParallel(headOk) ==
    /\ pc = "fetching"
    /\ Remaining # {}
    /\ LET f == NextFile
           size == manifest[f].size
       IN
        /\ Strategy(fs, f, size, headOk /\ acceptRanges) = "parallel"
        /\ parts' = [i \in 0..(part_count(size) - 1) |->
                        [st |-> "queued", a |-> PartStart(size, i),
                         e |-> PartEnd(size, i), got |-> 0, err |-> "none",
                         seg |-> Segment("empty", 0, 0)]]
        /\ cur' = f
        /\ started' = started \cup {f}
    /\ pc' = "parts"
    /\ UNCHANGED <<poolVars, srvVars, envVars, diskVars, diffVars, results, passVars, exc, fs, cancel_requested,
                   cache, pendingDelete, xfer, outcome, deleted, verified>>

PartFrame ==
    UNCHANGED <<poolVars, srvVars, envVars, diskVars, diffVars, results, passVars, exc, cancel_requested, pc,
                cache, pendingDelete, cur, xfer, outcome, deleted, started,
                verified>>

\* download_part: the ranged GET and the opening of the part file
PartGet(i, net) ==
    /\ pc = "parts"
    /\ i \in DOMAIN parts
    /\ parts[i].st = "queued"
    /\ LET resp == Delivered(ServerGet(cur[1], parts[i].a, parts[i].e), net) IN
       IF net = "error" \/ resp.status # 206
       THEN /\ parts' = [parts EXCEPT ![i].st = "failed",
                                      ![i].err = IF net = "error"
                                                 THEN "RequestException"
                                                 ELSE "IOError"]
            /\ UNCHANGED fs
       ELSE /\ parts' = [parts EXCEPT ![i].st = "streaming", ![i].seg = resp.seg]
            /\ fs' = Put(fs, PartFile(cur[1], i), EmptyContent)
    /\ PartFrame

PartChunk(i) ==
    /\ pc = "parts"
    /\ i \in DOMAIN parts
    /\ parts[i].st = "streaming"
    /\ LET len == parts[i].seg.b - parts[i].seg.a
           g2 == NextStop(0, parts[i].got, len, FALSE)
           piece == Segment(parts[i].seg.t, parts[i].seg.a + parts[i].got,
                            parts[i].seg.a + g2)
           name == PartFile(cur[1], i)
       IN IF cancel_requested
          THEN /\ parts' = [parts EXCEPT ![i].st = "failed",
                                         ![i].err = "Exception"]
               /\ UNCHANGED fs
          ELSE /\ fs' = Put(fs, name, AppendBytes(fs[name], piece))
               /\ parts' = [parts EXCEPT ![i].got = g2,
                                         ![i].st = IF g2 = len THEN "done"
                                                   ELSE "streaming"]
    /\ PartFrame

\* the connection of one part breaks
PartBreak(i) ==
    /\ pc = "parts"
    /\ i \in DOMAIN parts
    /\ parts[i].st = "streaming"
    /\ parts' = [parts EXCEPT ![i].st = "failed",
                              ![i].err = "RequestException"]
    /\ UNCHANGED fs
    /\ PartFrame

\* the body of one part ends early without an error
PartTruncate(i) ==
    /\ pc = "parts"
    /\ i \in DOMAIN parts
    /\ parts[i].st = "streaming"
    /\ parts' = [parts EXCEPT ![i].st = "done"]
    /\ UNCHANGED fs
    /\ PartFrame

RECURSIVE Assemble(_, _, _, _)
Assemble(fsv, p, i, n) ==
    IF i >= n THEN EmptyContent
    ELSE Concat(fsv[PartFile(p, i)], Assemble(fsv, p, i + 1, n))

\* "for f in futures: f.result()" raises the exception of the first failed part
FirstError(ps) ==
    ps[Min({i \in DOMAIN ps : ps[i].st = "failed"})].err

\* all part threads have ended: "for f in futures: f.result()", the
\* concatenation into dest, the size check and the finally block
PartsJoin ==
    /\ pc = "parts"
    /\ \A i \in DOMAIN parts : parts[i].st \in {"done", "failed"}
    /\ LET n == Cardinality(DOMAIN parts)
           names == PartFiles(cur, n)
           assembled == Put(DelAll(fs, names), cur, Assemble(fs, cur[1], 0, n))
       IN IF \E i \in DOMAIN parts : parts[i].st = "failed"
          THEN Raise(DelAll(fs, names), started, FirstError(parts))
          ELSE IF StatSize(assembled, cur) # manifest[cur].size
          THEN Raise(assembled, started, "IOError")
          ELSE /\ fs' = assembled
               /\ parts' = EmptyMap
               /\ pc' = "verify"
               /\ UNCHANGED <<poolVars, srvVars, envVars, diskVars, diffVars, results, passVars, exc,
                              cancel_requested, cache, pendingDelete, cur,
                              xfer, outcome, deleted, started, verified>>

----------------------------------------------------------------------------
(* sync(): the hash check after each download, the commit, cancellation    *)

\* a save that keeps the old file
save_cache_bad(primary, bak, data) ==
    [primary |-> primary, bak |-> bak]

\* copy2 of an unreadable cache file raises OSError before anything is
\* written, and the restoring copy2 cannot write to it either
save_cache(primary, bak, data) ==
    IF primary.kind = "unreadable" THEN [primary |-> primary, bak |-> bak]
    ELSE [primary |-> DictDoc(data),
          bak |-> IF primary.kind # "absent" THEN primary ELSE bak]

\* the loop body saving the cache after each verified file
VerifyFile_bad ==
    /\ pc = "verify"
    /\ IF verify_file_integrity(fs, cur, manifest[cur].hash)
       THEN /\ cache' = Put(cache, cur, manifest[cur].hash)
            /\ cacheFile' = save_cache(cacheFile, cacheBak, cache').primary
            /\ cacheBak' = save_cache(cacheFile, cacheBak, cache').bak
            /\ verified' = verified \cup {cur}
            /\ cur' = NoFile
            /\ xfer' = NoXfer
            /\ pc' = "fetching"
            /\ UNCHANGED <<poolVars, srvVars, envVars, rootExists, backups, lastBackup, diffVars, results,
                           passVars, exc, fs, cancel_requested, pendingDelete,
                           parts, outcome, deleted, started>>
       ELSE Raise(fs, started, "IOError")

VerifyFile ==
    /\ pc = "verify"
    /\ IF verify_file_integrity(fs, cur, manifest[cur].hash)
       THEN /\ cache' = Put(cache, cur, manifest[cur].hash)
            /\ verified' = verified \cup {cur}
            /\ cur' = NoFile
            /\ xfer' = NoXfer
            /\ pc' = "fetching"
            /\ UNCHANGED <<poolVars, srvVars, envVars, diskVars, diffVars, results, passVars, exc, fs,
                           cancel_requested, pendingDelete, parts,
                           outcome, deleted, started>>
       ELSE Raise(fs, started, "IOError")

Commit ==
    /\ pc = "fetching"
    /\ Remaining = {}
    /\ cacheFile' = save_cache(cacheFile, cacheBak, cache).primary
    /\ cacheBak' = save_cache(cacheFile, cacheBak, cache).bak
    /\ outcome' = "success"
    /\ pc' = "idle"
    /\ cache' = EmptyMap
    /\ UNCHANGED <<poolVars, srvVars, envVars, rootExists, backups, lastBackup, diffVars, results, passVars, exc,
                   fs, cancel_requested, pendingDelete, cur, xfer, parts,
                   deleted, started, verified>>

\* create_backup(mods_path, files) is called while no sync runs; the model
\* keeps one snapshot, taken of all the paths
\* create_backup at second t of the clock: the snapshot directory (made
\* with exist_ok, so a second snapshot of the same second shares it), the
\* pointer file, then cleanup_old_backups()
CreateBackupAt(t) ==
    /\ pc = "idle"
    /\ LET files == [i \in 1..Len(SortedPaths) |-> Dest(SortedPaths[i])] IN
        /\ Len(Grouped(fs, files)) > 0
        /\ backups' = cleanup_old_backups(Put(backups, t, create_backup(fs, files)))
    /\ lastBackup' = t
    /\ UNCHANGED <<poolVars, srvVars, envVars, rootExists, cacheFile, cacheBak, diffVars, results, passVars, exc,
                   fs, cancel_requested, pc, cache, pendingDelete, cur, xfer,
                   parts, outcome, deleted, started, verified>>

\* the one snapshot a caller takes before its passes
CreateBackup ==
    /\ lastBackup = 0
    /\ CreateBackupAt(1)

\* the caller sets the public flag cancel_requested while sync() runs; the
\* transfers read it before each chunk
Cancel ==
    /\ pc # "idle"
    /\ ~cancel_requested
    /\ cancel_requested' = TRUE
    /\ UNCHANGED <<poolVars, srvVars, envVars, diskVars, diffVars, results, passVars, exc, fs, pc, cache,
                   pendingDelete, cur, xfer, parts, outcome, deleted, started,
                   verified>>

----------------------------------------------------------------------------
Next ==
    \/ \E dry \in BOOLEAN : SyncCall(dry)
    \/ \E e \in {"ConnectionError", "ValueError"} : ManifestFail(e)
    \/ Diff
    \/ \E f \in pendingDelete : DeleteOne(f)
    \/ \E f \in pendingDelete : DeleteFail(f)
    \/ BeginSkip
    \/ BeginInvalid
    \/ \E net \in Network : BeginSimple(net)
    \/ \E headOk \in BOOLEAN, net \in Network : BeginResume(headOk, net)
    \/ \E headOk \in BOOLEAN : BeginParallel(headOk)
    \/ ChunkWrite
    \/ ChunkCancel
    \/ StreamBreak
    \/ StreamTruncate
    \/ Finish
    \/ \E i \in DOMAIN parts : \E net \in PartNetwork(i) : PartGet(i, net)
    \/ \E i \in DOMAIN parts : PartChunk(i)
    \/ \E i \in DOMAIN parts : PartBreak(i)
    \/ \E i \in DOMAIN parts : PartTruncate(i)
    \/ PartsJoin
    \/ VerifyFile
    \/ Commit
    \/ Cancel
    \/ CreateBackup

Spec == Init /\ [][Next]_vars

----------------------------------------------------------------------------
(* The comparison alone, over every listing, manifest and cache of a small *)
(* universe: a local file of either size and either content, a leftover    *)
(* temporary file, a manifest entry with or without a hash, and a cached   *)
(* hash that is missing, current or stale.                                 *)

SizeA == chunk_size
SizeB == 2 * chunk_size
DiffLocals == {"absent", "x", "y", "big"}
DiffRemotes == {"absent", "x", "xnull", "big"}
DiffCached == {"none", "x", "y"}
DiffCases == [local : DiffLocals, temp : BOOLEAN, remote : DiffRemotes,
              cached : DiffCached]

DiffContent(kind) ==
    IF kind = "big" THEN Content(SizeB, "x")
    ELSE IF kind = "y" THEN Content(SizeA, "y") ELSE Content(SizeA, "x")

DiffFs(sc) ==
    [name \in {Dest(q) : q \in {r \in Paths : sc[r].local # "absent"}}
              \cup {TempDest(q) : q \in {r \in Paths : sc[r].temp}}
        |-> IF name[2] = "" THEN DiffContent(sc[name[1]].local)
            ELSE Content(SizeA, "x")]

DiffManifest(sc) ==
    [name \in {Dest(q) : q \in {r \in Paths : sc[r].remote # "absent"}}
        |-> [size |-> DiffContent(sc[name[1]].remote).n,
             hash |-> IF sc[name[1]].remote = "xnull" THEN NullHash
                      ELSE HexDigest(DiffContent(sc[name[1]].remote))]]

DiffCache(sc) ==
    [name \in {Dest(q) : q \in {r \in Paths : sc[r].cached # "none"}}
        |-> HexDigest(DiffContent(sc[name[1]].cached))]

DiffInit ==
    \E sc \in [Paths -> DiffCases] :
        /\ rootExists = TRUE
        /\ fs = DiffFs(sc)
        /\ cacheFile = IF DiffCache(sc) = EmptyMap THEN AbsentDoc
                       ELSE DictDoc(DiffCache(sc))
        /\ cacheBak = AbsentDoc
        /\ backups = EmptyMap
        /\ lastBackup = 0
        /\ served = [name \in DOMAIN DiffManifest(sc)
                        |-> DiffContent(sc[name[1]].remote)]
        /\ manifest = DiffManifest(sc)
        /\ acceptRanges = TRUE
        /\ InitSync

DiffNext ==
    \/ \E dry \in BOOLEAN : SyncCall(dry)
    \/ Diff

SpecDiff == DiffInit /\ [][DiffNext]_vars

----------------------------------------------------------------------------
(* Passes against a server whose files change between the passes: the      *)
(* server's build_manifest lists a file again once it has been replaced.   *)
(* Small files only, no failing unlink and no cancellation.                *)

NewContent == Content(3 * chunk_size, "new")

\* a new version of p is put into the server's directory while no sync runs
ServerPublish(p) ==
    /\ pc = "idle"
    /\ p \in DOMAIN served => served[p] # NewContent
    /\ served' = Put(served, p, NewContent)
    /\ manifest' = Put(manifest, Dest(p),
                       [size |-> NewContent.n, hash |-> HexDigest(NewContent)])
    /\ UNCHANGED <<poolVars, srvVars, acceptRanges, diskVars, diffVars, results, passVars, exc, fs,
                   cancel_requested, pc, cache, pendingDelete, cur, xfer,
                   parts, outcome, deleted, started, verified>>

StaleInit ==
    /\ Init
    /\ acceptRanges
    /\ \A f \in DOMAIN manifest :
          manifest[f].size = TierSize("tiny") /\ Truthy(manifest[f].hash)
    /\ \A f \in DOMAIN fs : fs[f].n <= NewContent.n

StaleNext ==
    \/ \E dry \in BOOLEAN : SyncCall(dry)
    \/ Diff
    \/ \E f \in pendingDelete : DeleteOne(f)
    \/ BeginSkip
    \/ \E net \in Network : BeginSimple(net)
    \/ \E net \in Network : BeginResume(FALSE, net)
    \/ ChunkWrite
    \/ StreamBreak
    \/ Finish
    \/ VerifyFile
    \/ Commit
    \/ CreateBackup
    \/ \E p \in Paths : ServerPublish(p)

SpecStale == StaleInit /\ [][StaleNext]_vars

----------------------------------------------------------------------------
(* Passes against a healthy server: every request is answered in full, no  *)
(* unlink fails and nobody cancels.                                        *)

HealthyNext ==
    \/ \E dry \in BOOLEAN : SyncCall(dry)
    \/ Diff
    \/ \E f \in pendingDelete : DeleteOne(f)
    \/ BeginSkip
    \/ BeginInvalid
    \/ BeginSimple("ok")
    \/ BeginResume(TRUE, "ok")
    \/ BeginParallel(TRUE)
    \/ ChunkWrite
    \/ Finish
    \/ \E i \in DOMAIN parts : PartGet(i, "ok")
    \/ \E i \in DOMAIN parts : PartChunk(i)
    \/ PartsJoin
    \/ VerifyFile
    \/ Commit
    \/ CreateBackup

SpecHealthy == Init /\ [][HealthyNext]_vars

----------------------------------------------------------------------------
(* download_file_resume called on its own: one served file, a temp file    *)
(* left by an earlier call (a prefix of the served bytes or of older       *)
(* bytes), with or without a destination file, against a server that does  *)
(* or does not honour Range.  The caller calls again after a return or an  *)
(* exception; there is no snapshot, so rollback changes nothing.           *)

ResumePath == "a.jar"
ResumeTemp == TempDest(ResumePath)

ResumeInit ==
    \E tier \in Tiers \ {"zero"} : \E ar \in BOOLEAN :
    \E k \in {0, chunk_size \div 2, chunk_size} :
    \E t \in {ResumePath, "old"} : \E dl \in {"absent", "othersize"} :
        /\ rootExists = TRUE
        /\ fs = [name \in (IF k > 0 THEN {ResumeTemp} ELSE {})
                            \cup (IF dl = "absent" THEN {} ELSE {Dest(ResumePath)}) |->
                    IF name = ResumeTemp THEN Content(k, t)
                    ELSE LocalContent(tier, ResumePath, dl)]
        /\ cacheFile = AbsentDoc
        /\ cacheBak = AbsentDoc
        /\ backups = EmptyMap
        /\ lastBackup = 0
        /\ served = [p \in {ResumePath} |-> ServedContent(tier, p)]
        /\ manifest = [name \in {Dest(ResumePath)} |->
                          [size |-> TierSize(tier),
                           hash |-> ManifestHash(tier, ResumePath)]]
        /\ acceptRanges = ar
        /\ InitSync

ResumeCall(net) ==
    /\ pc \in {"idle", "verify"}
    /\ StartResume(Dest(ResumePath), net)

ResumeNext ==
    \/ \E net \in Network : ResumeCall(net)
    \/ ChunkWrite
    \/ StreamBreak
    \/ StreamTruncate
    \/ Finish

SpecResume == ResumeInit /\ [][ResumeNext]_vars

----------------------------------------------------------------------------
(* The backup vault alone: snapshots of a root that does not change, made  *)
(* one after another, two of them possibly within the same second.         *)

VaultNext ==
    \E t \in {lastBackup, lastBackup + 1} :
        /\ t >= 1 /\ t <= MaxStamps
        /\ CreateBackupAt(t)

SpecVault == Init /\ [][VaultNext]_vars

----------------------------------------------------------------------------
(* verify_file_integrity alone, at the point where sync() calls it: a      *)
(* destination file that is missing, readable or unreadable, and an        *)
(* expected hash that is the file's digest in lower or upper case, another *)
(* digest, None or "".                                                     *)

VerifyPath == "a.jar"

ExpectedHash(tier, kind) ==
    IF kind = "lower" THEN HexDigest(ServedContent(tier, VerifyPath))
    ELSE IF kind = "upper" THEN UpperHex(HexDigest(ServedContent(tier, VerifyPath)))
    ELSE IF kind = "other" THEN HexDigest(JunkContent)
    ELSE IF kind = "null" THEN NullHash
    ELSE NoDigest

VerifyInit ==
    \E tier \in Tiers :
    \E lk \in {"absent", "good", "samesize", "othersize", "denied"} :
    \E ek \in {"lower", "upper", "other", "null", "empty"} :
        /\ rootExists = TRUE
        /\ fs = [name \in (IF lk = "absent" THEN {} ELSE {Dest(VerifyPath)}) |->
                    IF lk = "denied" THEN Denied
                    ELSE LocalContent(tier, VerifyPath, lk)]
        /\ cacheFile = AbsentDoc
        /\ cacheBak = AbsentDoc
        /\ backups = EmptyMap
        /\ lastBackup = 0
        /\ served = [p \in {VerifyPath} |-> ServedContent(tier, p)]
        /\ manifest = [name \in {Dest(VerifyPath)} |->
                          [size |-> TierSize(tier), hash |-> ExpectedHash(tier, ek)]]
        /\ acceptRanges = TRUE
        /\ cancel_requested = FALSE
        /\ pc = "verify"
        /\ dry_run = FALSE
        /\ cache = EmptyMap
        /\ to_delete = {}
        /\ to_update = {Dest(VerifyPath)}
        /\ unchanged = {}
        /\ pendingDelete = {}
        /\ cur = Dest(VerifyPath)
        /\ xfer = NoXfer
        /\ parts = EmptyMap
        /\ outcome = "running"
        /\ exc = "none"
        /\ prevSuccess = FALSE
        /\ preRoot = TRUE
        /\ preFs = EmptyMap
        /\ preCacheFile = AbsentDoc
        /\ deleted = {}
        /\ started = {Dest(VerifyPath)}
        /\ verified = {}
        /\ results = EmptyMap
        /\ InitManager("balanced_adaptive")
        /\ InitServer

VerifyNext == VerifyFile

SpecVerify == VerifyInit /\ [][VerifyNext]_vars

----------------------------------------------------------------------------
(* load_cache and save_cache alone: a cache file and a backup copy of      *)
(* every kind, dicts with hashes and with None values.                     *)

CacheValues == {HexDigest(JunkContent), HexDigest(Content(chunk_size, "x")), NullHash}
CacheDicts ==
    UNION {[D -> CacheValues] : D \in SUBSET {Dest(q) : q \in Paths}}
CacheDocs ==
    {AbsentDoc} \cup {DictDoc(d) : d \in CacheDicts}
        \cup {OtherDoc(k) : k \in {"nondict", "corrupt", "undecodable", "unreadable"}}
\* the documents the files hold at the start: every kind, one dict each
StartDocs ==
    {doc \in CacheDocs : doc.kind = "dict" => \A k \in DOMAIN doc.d : doc.d[k] = JsonNull}

CacheInit ==
    \E primary \in StartDocs : \E bak \in StartDocs :
        /\ rootExists = TRUE
        /\ fs = EmptyMap
        /\ cacheFile = primary
        /\ cacheBak = bak
        /\ backups = EmptyMap
        /\ lastBackup = 0
        /\ served = EmptyMap
        /\ manifest = EmptyMap
        /\ acceptRanges = TRUE
        /\ InitSync

\* save_cache(mods_path, data)
SaveCache(data) ==
    /\ pc = "idle"
    /\ cacheFile' = save_cache(cacheFile, cacheBak, data).primary
    /\ cacheBak' = save_cache(cacheFile, cacheBak, data).bak
    /\ UNCHANGED <<poolVars, srvVars, envVars, rootExists, backups, lastBackup, diffVars, results, passVars,
                   exc, fs, cancel_requested, pc, cache, pendingDelete, cur,
                   xfer, parts, outcome, deleted, started, verified>>

\* cache = load_cache(mods_path)
LoadCache ==
    /\ pc = "idle"
    /\ LET loaded == load_cache(cacheFile, cacheBak) IN
        /\ exc' = IF IsRaised(loaded) THEN loaded.kind ELSE "none"
        /\ cache' = IF IsRaised(loaded) THEN cache ELSE loaded.d
    /\ UNCHANGED <<poolVars, srvVars, envVars, diskVars, diffVars, results, passVars, fs, cancel_requested,
                   pc, pendingDelete, cur, xfer, parts, outcome, deleted,
                   started, verified>>

CacheNext ==
    \/ \E data \in CacheDicts : SaveCache(data)
    \/ LoadCache

SpecCache == CacheInit /\ [][CacheNext]_vars

----------------------------------------------------------------------------
(* rollback alone: a root, a pointer file that is there or not, and one    *)
(* snapshot of an earlier root whose manifest is missing, intact or        *)
(* damaged; the copy of any recorded file may fail.                        *)

RollbackFiles == [i \in 1..Len(SortedPaths) |-> Dest(SortedPaths[i])]
LocalCases == [remote : {TRUE}, local : {"absent", "good", "samesize", "othersize"},
               cached : {"none"}]

RollbackInit ==
    \E now \in [Paths -> LocalCases] : \E before \in [Paths -> LocalCases] :
    \E pointer \in BOOLEAN : \E has \in BOOLEAN : \E doc \in ManifestDocs :
        /\ rootExists = TRUE
        /\ fs = InitFs("tiny", now)
        /\ cacheFile = AbsentDoc
        /\ cacheBak = AbsentDoc
        /\ Len(Grouped(InitFs("tiny", before), RollbackFiles)) > 0
        /\ backups = Put(EmptyMap, 1,
                         [create_backup(InitFs("tiny", before), RollbackFiles)
                            EXCEPT !.hasManifest = has, !.manifestDoc = doc])
        /\ lastBackup = IF pointer THEN 1 ELSE 0
        /\ served = InitServed("tiny", now)
        /\ manifest = InitManifest("tiny", now)
        /\ acceptRanges = TRUE
        /\ InitSync

\* rollback(mods_path), called directly
RollbackCall(failing) ==
    /\ pc = "idle"
    /\ exc' = rollback_exc(backups, lastBackup)
    /\ fs' = restore(fs, backups, lastBackup, failing)
    /\ UNCHANGED <<poolVars, srvVars, envVars, diskVars, diffVars, results, passVars, cancel_requested, pc,
                   cache, pendingDelete, cur, xfer, parts, outcome, deleted,
                   started, verified>>

RollbackNext ==
    \E failing \in SUBSET {Dest(q) : q \in Paths} : RollbackCall(failing)

SpecRollback == RollbackInit /\ [][RollbackNext]_vars

----------------------------------------------------------------------------
(* DownloadManager (src/modsync/client/download/manager.py) with its       *)
(* default strategy balanced_adaptive: files below 10 MiB go through       *)
(* _download_file_with_retry, the others through _download_with_resume.    *)
(* One step is the whole transfer of one file, retries included.           *)

ResumeClassLimit == 10 * 1024 * 1024

\* download_files(files_to_download)
ManagerCall(files) ==
    /\ pc = "idle"
    /\ files # {}
    /\ pc' = "managing"
    /\ to_update' = files
    /\ results' = EmptyMap
    /\ started' = {}
    /\ cancel_requested' = FALSE
    /\ UNCHANGED <<poolVars, srvVars, envVars, diskVars, passVars, exc, fs, to_delete, unchanged,
                   cache, pendingDelete, cur, xfer, parts, outcome, deleted,
                   verified>>

\* _download_file_with_retry: the body is written with mode 'wb'; the size is
\* compared with Content-Length when the response has one; when every
\* attempt fails the file is removed and the worker records no result
ManagerSimple(f, net) ==
    LET resp == Delivered(ServerGet(f[1], -1, -1), net)
        written == Bytes(resp.seg)
        failed == \/ net = "error" \/ resp.status >= 400
                  \/ (resp.hasLength /\ written.n # resp.seg.b - resp.seg.a)
    IN /\ fs' = IF failed THEN Del(fs, f) ELSE Put(fs, f, written)
       /\ results' = IF failed THEN results ELSE Put(results, f, TRUE)

\* _download_with_resume: a local file shorter than the expected size is
\* continued with a Range request (from the start again when the answer is
\* not 206); the result is "final_size == file_size"
ManagerResume(f, net) ==
    LET size == manifest[f].size
        have == IF Exists(fs, f) THEN StatSize(fs, f) ELSE 0
        append == 0 < have /\ have < size
        first == ServerGet(f[1], IF append THEN have ELSE -1, -1)
        restart == append /\ first.status # 206
        resp == Delivered(IF restart THEN ServerGet(f[1], -1, -1) ELSE first, net)
        base == IF append /\ ~restart THEN fs[f] ELSE EmptyContent
        written == AppendBytes(base, resp.seg)
        ok == net # "error" /\ written.n = size
    IN /\ fs' = IF ok THEN Put(fs, f, written) ELSE Del(fs, f)
       /\ results' = Put(results, f, ok)

ManagerFile(f, net) ==
    /\ pc = "managing"
    /\ f \in to_update \ started
    /\ ~cancel_requested
    /\ IF manifest[f].size < ResumeClassLimit
       THEN ManagerSimple(f, net)
       ELSE ManagerResume(f, net)
    /\ started' = started \cup {f}
    /\ UNCHANGED <<poolVars, srvVars, envVars, diskVars, diffVars, passVars, exc, cancel_requested,
                   pc, cache, pendingDelete, cur, xfer, parts, outcome, deleted,
                   verified>>

\* cancel_download()
ManagerCancel ==
    /\ pc = "managing"
    /\ ~cancel_requested
    /\ cancel_requested' = TRUE
    /\ UNCHANGED <<poolVars, srvVars, envVars, diskVars, diffVars, results, passVars, exc, fs, pc,
                   cache, pendingDelete, cur, xfer, parts, outcome, deleted,
                   started, verified>>

\* download_files returns {'success': not cancel_requested, 'results': ...}
ManagerReturn ==
    /\ pc = "managing"
    /\ to_update \subseteq started \/ cancel_requested
    /\ pc' = "idle"
    /\ UNCHANGED <<poolVars, srvVars, envVars, diskVars, diffVars, results, passVars, exc, fs,
                   cancel_requested, cache, pendingDelete, cur, xfer, parts,
                   outcome, deleted, started, verified>>

ManagerNext ==
    \/ \E files \in SUBSET (DOMAIN manifest) : ManagerCall(files)
    \/ \E f \in DOMAIN manifest : \E net \in Network : ManagerFile(f, net)
    \/ ManagerCancel
    \/ ManagerReturn

SpecManager == Init /\ [][ManagerNext]_vars

----------------------------------------------------------------------------
(* DownloadManager.download_files at the level of its threads: the classes *)
(* of _download_adaptive, the worker threads of _download_parallel, the    *)
(* attempts of _download_file_with_retry and of _download_with_resume.     *)

\* settings.get(key, default)
Setting(key, default) ==
    IF key \in DOMAIN strategy THEN strategy[key] ELSE default

\* the size classes of _download_adaptive
TinyLimit == 100 * 1024
FileClass(size) ==
    IF size < TinyLimit THEN "tiny"
    ELSE IF size < SimpleLimit THEN "small"
    ELSE IF size < ResumeClassLimit THEN "medium"
    ELSE "huge"
ClassFiles(class) ==
    {f \in to_update : FileClass(manifest[f].size) = class}
ClassWorkers(class) ==
    IF class = "tiny" THEN Setting("tiny_file_workers", 8)
    ELSE IF class = "small" THEN Setting("small_file_workers", 4)
    ELSE Setting("medium_file_workers", 2)
NextPhase(phase) ==
    IF phase = "start" THEN "tiny"
    ELSE IF phase = "tiny" THEN "small"
    ELSE IF phase = "small" THEN "medium"
    ELSE IF phase = "medium" THEN "huge"
    ELSE "return"

\* the files of S in the order of files_to_download
ListOf(S) ==
    SelectSeq([i \in 1..Len(SortedPaths) |-> Dest(SortedPaths[i])],
              LAMBDA f : f \in S)

\* min(max_workers, len(files), 20)
actual_workers(max, files) == Min({max, Cardinality(files), 20})

\* download_files(files_to_download): every profile of the manual
\* strategies has a 'name' that none of the branches tests for, so
\* _download_adaptive runs
PoolCall(files) ==
    /\ pc = "idle"
    /\ to_update' = files
    /\ results' = EmptyMap
    /\ started' = {}
    /\ hist' = [f \in files |-> [taken |-> 0, attempts |-> 0, fate |-> "none"]]
    /\ threads' = [w \in ThreadIds |-> NoWorker]
    /\ queue' = <<>>
    /\ unfinished' = 0
    /\ IF files = {}
       THEN /\ reply' = [keys |-> {"success", "results"}, success |-> TRUE,
                         cancelled |-> FALSE, results |-> EmptyMap]
            /\ UNCHANGED <<pc, pool, cancel_requested, outcome>>
       ELSE /\ reply' = NoReply
            /\ pc' = "pool"
            /\ pool' = [phase |-> "start", at |-> "enter", spawned |-> 0]
            /\ cancel_requested' = FALSE
            /\ outcome' = "running"
    /\ UNCHANGED <<srvVars, envVars, diskVars, passVars, strategy, exc, fs,
                   to_delete, unchanged, cache, pendingDelete, cur, xfer,
                   parts, deleted, verified>>

\* what no step of the batch changes
PoolFrame ==
    UNCHANGED <<srvVars, envVars, diskVars, diffVars, passVars, strategy,
                cancel_requested, exc, cache, pendingDelete, cur, xfer, parts,
                deleted, verified>>

\* _download_adaptive: "if self.cancel_requested: return {... 'cancelled': True}"
PoolStart ==
    /\ pc = "pool" /\ pool.phase = "start"
    /\ IF cancel_requested
       THEN /\ reply' = [keys |-> {"success", "results", "cancelled"},
                         success |-> FALSE, cancelled |-> TRUE,
                         results |-> EmptyMap]
            /\ pc' = "idle"
            /\ pool' = NoPool
            /\ outcome' = "success"
       ELSE /\ pool' = [pool EXCEPT !.phase = "tiny"]
            /\ UNCHANGED <<reply, pc, outcome>>
    /\ UNCHANGED <<fs, results, started, queue, unfinished, threads, hist>>
    /\ PoolFrame

\* "if tiny_files and not self.cancel_requested: self._download_parallel(...)":
\* the queue is filled; likewise for small_files and medium_files
PoolClass ==
    /\ pc = "pool" /\ pool.at = "enter"
    /\ pool.phase \in {"tiny", "small", "medium"}
    /\ IF ClassFiles(pool.phase) # {} /\ ~cancel_requested
       THEN /\ queue' = ListOf(ClassFiles(pool.phase))
            /\ unfinished' = Cardinality(ClassFiles(pool.phase))
            /\ threads' = [w \in ThreadIds |-> NoWorker]
            /\ pool' = [pool EXCEPT !.at = "spawn", !.spawned = 0]
       ELSE /\ pool' = [pool EXCEPT !.phase = NextPhase(pool.phase)]
            /\ UNCHANGED <<queue, unfinished, threads>>
    /\ UNCHANGED <<fs, results, started, hist, reply, pc, outcome>>
    /\ PoolFrame

\* "for _ in range(actual_workers): if self.cancel_requested: break;
\* t.start()"
PoolSpawn ==
    /\ pc = "pool" /\ pool.at = "spawn"
    /\ IF /\ pool.spawned < actual_workers(ClassWorkers(pool.phase),
                                           ClassFiles(pool.phase))
          /\ ~cancel_requested
       THEN /\ threads' = [threads EXCEPT ![pool.spawned + 1].st = "loop"]
            /\ pool' = [pool EXCEPT !.spawned = @ + 1]
       ELSE /\ pool' = [pool EXCEPT !.at = "wait"]
            /\ UNCHANGED threads
    /\ UNCHANGED <<fs, results, started, queue, unfinished, hist, reply, pc,
                   outcome>>
    /\ PoolFrame

Alive(w) == threads[w].st \notin {"unborn", "dead"}

\* "while any(t.is_alive() for t in threads) and not self.cancel_requested"
\* ends; "if self.cancel_requested:" chooses the clearing of the queue
PoolWait ==
    /\ pc = "pool" /\ pool.at = "wait"
    /\ cancel_requested \/ \A w \in PoolThreads : ~Alive(w)
    /\ pool' = [pool EXCEPT !.at = IF cancel_requested THEN "drain" ELSE "join"]
    /\ UNCHANGED <<fs, results, started, queue, unfinished, threads, hist,
                   reply, pc, outcome>>
    /\ PoolFrame

\* "while not queue.empty(): queue.get_nowait(); queue.task_done()"
PoolDrain ==
    /\ pc = "pool" /\ pool.at = "drain"
    /\ IF queue # <<>>
       THEN /\ queue' = Tail(queue)
            /\ unfinished' = unfinished - 1
            /\ UNCHANGED pool
       ELSE /\ pool' = [pool EXCEPT !.at = "join"]
            /\ UNCHANGED <<queue, unfinished>>
    /\ UNCHANGED <<fs, results, started, threads, hist, reply, pc, outcome>>
    /\ PoolFrame

\* "queue.join(); return results", then results.update(...) in the caller
PoolJoin ==
    /\ pc = "pool" /\ pool.at = "join"
    /\ unfinished = 0
    /\ pool' = [pool EXCEPT !.phase = NextPhase(pool.phase), !.at = "enter"]
    /\ UNCHANGED <<fs, results, started, queue, unfinished, threads, hist,
                   reply, pc, outcome>>
    /\ PoolFrame

\* the requests the batch has made so far
RECURSIVE SumAttempts(_)
SumAttempts(S) ==
    IF S = {} THEN 0
    ELSE LET f == CHOOSE x \in S : TRUE
         IN hist[f].attempts + SumAttempts(S \ {f})
\* what the network does to the next request, and to a request under way
PoolNetwork ==
    IF SumAttempts(DOMAIN hist) < MaxFaults THEN {"ok", "error"} ELSE {"ok"}
StreamBreaks ==
    IF SumAttempts(DOMAIN hist) <= MaxFaults THEN BOOLEAN ELSE {FALSE}

\* worker(): "while not queue.empty() and not self.cancel_requested"
WorkerLoop(w) ==
    /\ pc = "pool" /\ w \in PoolThreads
    /\ threads[w].st = "loop"
    /\ threads' = [threads EXCEPT ![w].st =
                      IF queue # <<>> /\ ~cancel_requested THEN "get" ELSE "dead"]
    /\ UNCHANGED <<fs, results, started, queue, unfinished, hist, reply, pc,
                   pool, outcome>>
    /\ PoolFrame

\* "file_info = queue.get_nowait()"; Empty ends the thread
WorkerGet(w) ==
    /\ pc = "pool" /\ w \in PoolThreads
    /\ threads[w].st = "get"
    /\ IF queue = <<>>
       THEN /\ threads' = [threads EXCEPT ![w].st = "dead"]
            /\ UNCHANGED <<queue, hist, started>>
       ELSE /\ threads' = [threads EXCEPT ![w].st = "taken",
                                          ![w].file = Head(queue)]
            /\ queue' = Tail(queue)
            /\ hist' = [hist EXCEPT ![Head(queue)].taken = @ + 1]
            /\ started' = started \cup {Head(queue)}
    /\ UNCHANGED <<fs, results, unfinished, reply, pc, pool, outcome>>
    /\ PoolFrame

\* a cancelled worker that leaves without task_done()
WorkerCheck_bad(w) ==
    /\ pc = "pool" /\ w \in PoolThreads
    /\ threads[w].st = "taken"
    /\ IF cancel_requested
       THEN /\ threads' = [threads EXCEPT ![w].st = "dead"]
            /\ UNCHANGED unfinished
       ELSE /\ threads' = [threads EXCEPT ![w].st = "attempt", ![w].attempt = 0,
                                          ![w].delay = 0]
            /\ UNCHANGED unfinished
    /\ UNCHANGED <<fs, results, started, queue, hist, reply, pc, pool, outcome>>
    /\ PoolFrame

\* "if self.cancel_requested: queue.task_done(); break", otherwise
\* _download_file_with_retry is entered
WorkerCheck(w) ==
    /\ pc = "pool" /\ w \in PoolThreads
    /\ threads[w].st = "taken"
    /\ IF cancel_requested
       THEN /\ threads' = [threads EXCEPT ![w].st = "dead"]
            /\ unfinished' = unfinished - 1
       ELSE /\ threads' = [threads EXCEPT ![w].st = "attempt", ![w].attempt = 0,
                                          ![w].delay = 0]
            /\ UNCHANGED unfinished
    /\ UNCHANGED <<fs, results, started, queue, hist, reply, pc, pool, outcome>>
    /\ PoolFrame

\* _download_file_with_retry returns a value to worker(), which records it:
\* "results[relpath] = success; queue.task_done()"
WorkerRecords(w, fsv, success, made) ==
    LET f == threads[w].file IN
    /\ fs' = fsv
    /\ results' = Put(results, f, success)
    /\ unfinished' = unfinished - 1
    /\ threads' = [threads EXCEPT ![w].st = "loop"]
    /\ hist' = [hist EXCEPT ![f].attempts = @ + made,
                            ![f].fate = IF success THEN "done" ELSE "cancelled"]

\* "except Exception as e:" of _download_file_with_retry: sleep
\* base_delay * (attempt + 1) and go on, or remove the file and raise into
\* worker(), whose handler calls task_done() and records nothing
RetryFail(w, fsv, made) ==
    LET wk == threads[w]
        f == wk.file
    IN IF wk.attempt < Setting("retry_count", 5) /\ ~cancel_requested
       THEN /\ fs' = fsv
            /\ threads' = [threads EXCEPT
                              ![w].st = "sleep",
                              ![w].delay = Setting("retry_delay", 1) * (wk.attempt + 1)]
            /\ hist' = [hist EXCEPT ![f].attempts = @ + made]
            /\ UNCHANGED <<results, unfinished>>
       ELSE /\ fs' = Del(fsv, f)
            /\ threads' = [threads EXCEPT ![w].st = "loop"]
            /\ hist' = [hist EXCEPT ![f].attempts = @ + made, ![f].fate = "raised"]
            /\ unfinished' = unfinished - 1
            /\ UNCHANGED results

\* one pass of the attempt loop up to "with open(local_path, 'wb')": the
\* cancel check, the /ping of a retry, the request and raise_for_status()
AttemptRequest(w, net) ==
    /\ pc = "pool" /\ w \in PoolThreads
    /\ threads[w].st = "attempt"
    /\ LET f == threads[w].file
           resp == Delivered(ServerGet(f[1], -1, -1), net)
       IN IF cancel_requested
          THEN WorkerRecords(w, fs, FALSE, 0)
          ELSE IF net = "error" \/ resp.status >= 400
          THEN RetryFail(w, fs, 1)
          ELSE /\ fs' = Put(fs, f, EmptyContent)
               /\ threads' = [threads EXCEPT ![w].st = "stream", ![w].resp = resp]
               /\ hist' = [hist EXCEPT ![f].attempts = @ + 1]
               /\ UNCHANGED <<results, unfinished>>
    /\ UNCHANGED <<started, queue, reply, pc, pool, outcome>>
    /\ PoolFrame

\* the first chunk_size bytes of a body
FirstChunk(seg) == Segment(seg.t, seg.a, Min({seg.a + chunk_size, seg.b}))

\* the chunk loop: cancelled, broken by the connection after the first
\* chunk (brk), or read to the end.  The response to a request without Range
\* carries no Content-Length, so total_size is 0 and the size check passes
AttemptStream(w, brk) ==
    /\ pc = "pool" /\ w \in PoolThreads
    /\ threads[w].st = "stream"
    /\ LET f == threads[w].file
           seg == threads[w].resp.seg
           written == Bytes(seg)
       IN /\ brk => seg.b - seg.a > chunk_size
          /\ IF cancel_requested
             THEN WorkerRecords(w, Del(fs, f), FALSE, 0)
             ELSE IF brk
             THEN RetryFail(w, Put(fs, f, Bytes(FirstChunk(seg))), 0)
             ELSE WorkerRecords(w, Put(fs, f, written), TRUE, 0)
    /\ UNCHANGED <<started, queue, reply, pc, pool, outcome>>
    /\ PoolFrame

\* time.sleep(delay) ends; "continue"
WorkerWake(w) ==
    /\ pc = "pool" /\ w \in PoolThreads
    /\ threads[w].st = "sleep"
    /\ threads' = [threads EXCEPT ![w].st = "attempt", ![w].attempt = @ + 1]
    /\ UNCHANGED <<fs, results, started, queue, unfinished, hist, reply, pc,
                   pool, outcome>>
    /\ PoolFrame

\* "if huge_files and not self.cancel_requested:"
PoolHuge ==
    /\ pc = "pool" /\ pool.phase = "huge" /\ pool.at = "enter"
    /\ pool' = IF ClassFiles("huge") # {} /\ ~cancel_requested
               THEN [pool EXCEPT !.at = "next"]
               ELSE [pool EXCEPT !.phase = "return"]
    /\ UNCHANGED <<fs, results, started, queue, unfinished, threads, hist,
                   reply, pc, outcome>>
    /\ PoolFrame

\* "for file_info in huge_files: if self.cancel_requested: break", then the
\* head of _download_with_resume: mode and Range header from the local file
PoolNextHuge ==
    /\ pc = "pool" /\ pool.phase = "huge" /\ pool.at = "next"
    /\ LET rest == ListOf(ClassFiles("huge") \ started) IN
       IF rest = <<>> \/ cancel_requested
       THEN /\ pool' = [pool EXCEPT !.phase = "return", !.at = "enter"]
            /\ UNCHANGED <<threads, started, hist>>
       ELSE LET f == Head(rest)
                have == IF Exists(fs, f) THEN StatSize(fs, f) ELSE 0
                append == 0 < have /\ have < manifest[f].size
            IN /\ threads' = [threads EXCEPT ![0] =
                                 [NoWorker EXCEPT
                                     !.st = "attempt", !.file = f,
                                     !.mode = IF append THEN "ab" ELSE "wb",
                                     !.offset = IF append THEN have ELSE 0]]
               /\ started' = started \cup {f}
               /\ hist' = [hist EXCEPT ![f].taken = @ + 1]
               /\ pool' = [pool EXCEPT !.at = "resume"]
    /\ UNCHANGED <<fs, results, queue, unfinished, reply, pc, outcome>>
    /\ PoolFrame

\* _download_with_resume returns: "results[relpath] = success"
ResumeReturns(fsv, success, made) ==
    LET f == threads[0].file IN
    /\ fs' = fsv
    /\ results' = Put(results, f, success)
    /\ threads' = [threads EXCEPT ![0].st = "dead"]
    /\ pool' = [pool EXCEPT !.at = "next"]
    /\ hist' = [hist EXCEPT ![f].attempts = @ + made,
                            ![f].fate = IF success THEN "done" ELSE "failed"]

\* 2 ** attempt
RECURSIVE Pow2(_)
Pow2(n) == IF n = 0 THEN 1 ELSE 2 * Pow2(n - 1)

\* "except Exception as e:" of _download_with_resume: sleep 2 ** attempt and
\* go on with the same mode and headers, or remove the file and return False
ResumeFail(fsv, made) ==
    LET wk == threads[0]
        f == wk.file
    IN IF wk.attempt < Setting("retry_count", 5) /\ ~cancel_requested
       THEN /\ fs' = fsv
            /\ threads' = [threads EXCEPT ![0].st = "sleep",
                                          ![0].delay = Pow2(wk.attempt)]
            /\ hist' = [hist EXCEPT ![f].attempts = @ + made]
            /\ UNCHANGED <<results, pool>>
       ELSE ResumeReturns(Del(fsv, f), FALSE, made)

\* the Range header of a pass: the headers computed before the loop
ResumeRange(wk, fsv) ==
    IF wk.mode = "ab" THEN wk.offset ELSE -1

\* one pass of the attempt loop up to "with open(local_path, mode)": the
\* cancel check, the /ping of a retry, the request, the second request
\* without Range when the answer to a Range request is not 206
ResumeRequest(net) ==
    /\ pc = "pool" /\ pool.at = "resume"
    /\ threads[0].st = "attempt"
    /\ LET wk == threads[0]
           f == wk.file
           have == IF Exists(fs, f) THEN StatSize(fs, f) ELSE 0
           first == ServerGet(f[1], ResumeRange(wk, fs), -1)
           restart == wk.mode = "ab" /\ first.status # 206
           resp == Delivered(IF restart THEN ServerGet(f[1], -1, -1) ELSE first,
                             net)
           mode == IF restart THEN "wb" ELSE wk.mode
       IN IF cancel_requested
          THEN ResumeReturns(Del(fs, f), FALSE, 0)
          ELSE IF net = "error"
          THEN ResumeFail(fs, 1)
          ELSE /\ fs' = IF mode = "wb" \/ ~Exists(fs, f)
                        THEN Put(fs, f, EmptyContent) ELSE fs
               /\ threads' = [threads EXCEPT
                                 ![0].st = "stream", ![0].resp = resp,
                                 ![0].mode = mode,
                                 ![0].offset = IF restart THEN 0 ELSE wk.offset,
                                 ![0].had = have]
               /\ hist' = [hist EXCEPT ![f].attempts = @ + 1]
               /\ UNCHANGED <<results, pool>>
    /\ UNCHANGED <<started, queue, unfinished, reply, pc, outcome>>
    /\ PoolFrame

\* the chunk loop and "final_size == file_size"
ResumeStream(brk) ==
    /\ pc = "pool" /\ pool.at = "resume"
    /\ threads[0].st = "stream"
    /\ LET f == threads[0].file
           seg == threads[0].resp.seg
           whole == AppendBytes(fs[f], seg)
       IN /\ brk => seg.b - seg.a > chunk_size
          /\ IF cancel_requested
             THEN ResumeReturns(Del(fs, f), FALSE, 0)
             ELSE IF brk
             THEN ResumeFail(Put(fs, f, AppendBytes(fs[f], FirstChunk(seg))), 0)
             ELSE IF whole.n = manifest[f].size
             THEN ResumeReturns(Put(fs, f, whole), TRUE, 0)
             ELSE ResumeReturns(Del(fs, f), FALSE, 0)
    /\ UNCHANGED <<started, queue, unfinished, reply, pc, outcome>>
    /\ PoolFrame

\* time.sleep(2 ** attempt) ends
ResumeWake ==
    /\ pc = "pool" /\ pool.at = "resume"
    /\ threads[0].st = "sleep"
    /\ threads' = [threads EXCEPT ![0].st = "attempt", ![0].attempt = @ + 1]
    /\ UNCHANGED <<fs, results, started, queue, unfinished, hist, reply, pc,
                   pool, outcome>>
    /\ PoolFrame

\* "return {'success': not self.cancel_requested, 'results': results,
\* 'cancelled': self.cancel_requested}"; sync_mods_cli then logs
\* "Sync completed successfully" whatever the dict holds
PoolReturn ==
    /\ pc = "pool" /\ pool.phase = "return"
    /\ reply' = [keys |-> {"success", "results", "cancelled"},
                 success |-> ~cancel_requested,
                 cancelled |-> cancel_requested,
                 results |-> results]
    /\ pc' = "idle"
    /\ pool' = NoPool
    /\ outcome' = "success"
    /\ UNCHANGED <<fs, results, started, queue, unfinished, threads, hist>>
    /\ PoolFrame

\* cancel_download(), from the thread of the user interface
PoolCancel ==
    /\ pc = "pool"
    /\ ~cancel_requested
    /\ cancel_requested' = TRUE
    /\ UNCHANGED <<srvVars, envVars, diskVars, diffVars, passVars, results,
                   poolVars, exc, fs, pc, cache, pendingDelete, cur, xfer,
                   parts, outcome, deleted, started, verified>>

\* batches of files the server lists, all of one size class; a file of the
\* root is absent or, where transfers are resumed, holds the first bytes of
\* the served file
PoolTiers == {"zero", "tiny", "medium", "huge"}
PoolInit ==
    \E tier \in PoolTiers : \E key \in DOMAIN ManualStrategies :
    \E partial \in SUBSET Paths : \E ar \in BOOLEAN :
        /\ tier # "huge" => partial = {} /\ ar
        /\ rootExists = TRUE
        /\ fs = [name \in {Dest(q) : q \in partial} |-> Content(chunk_size, name[1])]
        /\ cacheFile = AbsentDoc
        /\ cacheBak = AbsentDoc
        /\ backups = EmptyMap
        /\ lastBackup = 0
        /\ served = [p \in Paths |-> ServedContent(tier, p)]
        /\ manifest = [name \in {Dest(q) : q \in Paths} |->
                          [size |-> TierSize(tier), hash |-> ManifestHash(tier, name[1])]]
        /\ acceptRanges = ar
        /\ cancel_requested = FALSE
        /\ pc = "idle"
        /\ dry_run = FALSE
        /\ cache = EmptyMap
        /\ to_delete = {}
        /\ to_update = {}
        /\ unchanged = {}
        /\ pendingDelete = {}
        /\ cur = NoFile
        /\ xfer = NoXfer
        /\ parts = EmptyMap
        /\ outcome = "none"
        /\ exc = "none"
        /\ prevSuccess = FALSE
        /\ preRoot = TRUE
        /\ preFs = fs
        /\ preCacheFile = AbsentDoc
        /\ deleted = {}
        /\ started = {}
        /\ verified = {}
        /\ results = EmptyMap
        /\ InitManager(key)
        /\ InitServer

PoolMain ==
    \/ PoolStart
    \/ PoolClass
    \/ PoolSpawn
    \/ PoolWait
    \/ PoolDrain
    \/ PoolJoin
    \/ PoolHuge
    \/ PoolNextHuge
    \/ \E net \in PoolNetwork : ResumeRequest(net)
    \/ \E brk \in StreamBreaks : ResumeStream(brk)
    \/ ResumeWake
    \/ PoolReturn

PoolWorker(w) ==
    \/ WorkerLoop(w)
    \/ WorkerGet(w)
    \/ WorkerCheck(w)
    \/ \E net \in PoolNetwork : AttemptRequest(w, net)
    \/ \E brk \in StreamBreaks : AttemptStream(w, brk)
    \/ WorkerWake(w)

PoolNext ==
    \/ \E files \in SUBSET (DOMAIN manifest) : reply = NoReply /\ PoolCall(files)
    \/ PoolMain
    \/ \E w \in PoolThreads : PoolWorker(w)
    \/ PoolCancel

SpecPool == PoolInit /\ [][PoolNext]_vars

\* DownloadManager() with its default profile; the scheduler runs every
\* thread that can take a step
PoolDefaultInit ==
    PoolInit /\ strategy = ManualStrategies["balanced_adaptive"]

SpecPoolFair ==
    /\ PoolDefaultInit /\ [][PoolNext]_vars
    /\ WF_vars(PoolMain)
    /\ \A w \in PoolThreads : WF_vars(PoolWorker(w))



----------------------------------------------------------------------------
(* The server's manifest cache (src/test_update_logic/main.py): request    *)
(* threads in get_cached_manifest (GET /manifest) and in generate_manifest *)
(* (POST /refresh), and MANIFEST_LOCK, a threading.Lock, which a thread    *)
(* that holds it cannot acquire again.                                     *)

SrvFrame ==
    UNCHANGED <<poolVars, envVars, diskVars, diffVars, passVars, results, fs,
                cancel_requested, pc, cache, pendingDelete, cur, xfer, parts,
                outcome, exc, deleted, started, verified>>

\* a request arrives: GET /manifest calls get_cached_manifest, POST /refresh
\* calls generate_manifest
ServerRequest(c, route) ==
    /\ callers[c].at = "idle"
    /\ callers' = [callers EXCEPT ![c] =
                      [at |-> IF route = "manifest" THEN "cached_lock"
                              ELSE "generate_lock",
                       route |-> route, got |-> "none"]]
    /\ UNCHANGED <<MANIFEST_LOCK, MANIFEST_TIMESTAMP, clock>>
    /\ SrvFrame

\* get_cached_manifest: "with MANIFEST_LOCK:"
CachedLock(c) ==
    /\ callers[c].at = "cached_lock"
    /\ MANIFEST_LOCK = 0
    /\ MANIFEST_LOCK' = c
    /\ callers' = [callers EXCEPT ![c].at = "cached_check"]
    /\ UNCHANGED <<MANIFEST_TIMESTAMP, clock>>
    /\ SrvFrame

\* "if current_time - MANIFEST_TIMESTAMP > cache_duration: return
\* generate_manifest()", else "return MANIFEST_CACHE.copy()" and the lock is
\* released
CachedCheck(c) ==
    /\ callers[c].at = "cached_check"
    /\ IF clock - MANIFEST_TIMESTAMP > cache_duration
       THEN /\ callers' = [callers EXCEPT ![c].at = "generate_lock"]
            /\ UNCHANGED MANIFEST_LOCK
       ELSE /\ callers' = [callers EXCEPT ![c].at = "idle", ![c].got = "cached"]
            /\ MANIFEST_LOCK' = 0
    /\ UNCHANGED <<MANIFEST_TIMESTAMP, clock>>
    /\ SrvFrame

\* generate_manifest: "with MANIFEST_LOCK:"
GenerateLock(c) ==
    /\ callers[c].at = "generate_lock"
    /\ MANIFEST_LOCK = 0
    /\ MANIFEST_LOCK' = c
    /\ callers' = [callers EXCEPT ![c].at = "generate_build"]
    /\ UNCHANGED <<MANIFEST_TIMESTAMP, clock>>
    /\ SrvFrame

\* build_manifest(force=True), MANIFEST_CACHE and MANIFEST_TIMESTAMP are
\* set, the lock is released and the manifest returned
GenerateBuild(c) ==
    /\ callers[c].at = "generate_build"
    /\ MANIFEST_TIMESTAMP' = clock
    /\ MANIFEST_LOCK' = 0
    /\ callers' = [callers EXCEPT ![c].at = "idle", ![c].got = "fresh"]
    /\ UNCHANGED clock
    /\ SrvFrame

\* time passes: cache_duration seconds, or one second more
ServerTick(d) ==
    /\ clock \div cache_duration < MaxTicks
    /\ clock' = clock + d
    /\ UNCHANGED <<MANIFEST_LOCK, MANIFEST_TIMESTAMP, callers>>
    /\ SrvFrame

ServerThread(c) ==
    \/ CachedLock(c)
    \/ CachedCheck(c)
    \/ GenerateLock(c)
    \/ GenerateBuild(c)

ServerNext ==
    \/ \E c \in Callers : \E route \in {"manifest", "refresh"} :
          ServerRequest(c, route)
    \/ \E c \in Callers : ServerThread(c)
    \/ \E d \in {cache_duration, cache_duration + 1} : ServerTick(d)

\* the server starts beside a client that has not been run yet
ServerInit == Init /\ rootExists = FALSE

\* every request thread is scheduled, and a thread that waits for the lock
\* gets it if the lock is free again and again
SpecServer ==
    /\ ServerInit /\ [][ServerNext]_vars
    /\ \A c \in Callers : SF_vars(ServerThread(c))

----------------------------------------------------------------------------
(* Properties                                                              *)

\* the comparison of the current pass has been made
Diffed ==
    /\ pc # "manifest"
    /\ outcome \in {"running", "success", "failed", "dry_run"}

\* the cache the comparison of the current pass read
LoadedCache == load_cache(preCacheFile, cacheBak).d

\* C1: after a successful pass every file of to_update exists at its
\* destination and its hash equals the manifest's hash for it; a file whose
\* hash differs from the manifest's never coexists with outcome "success".
C1_FetchedMatchManifest ==
    outcome = "success" =>
        \A f \in to_update :
            /\ Exists(fs, f)
            /\ HexDigest(fs[f]) = manifest[f].hash

\* a successful pass that downloaded a non-empty file that was not there
C1_Witness ==
    /\ outcome = "success"
    /\ \E f \in to_update : f \notin DOMAIN preFs /\ f \in started
    /\ \A f \in to_update : manifest[f].size > 0

\* C2: in every transfer strategy the bytes go to a temporary path only; a
\* step of a running transfer that creates or changes a destination file
\* puts there content of the manifest's size and, where the manifest has a
\* hash, of the manifest's hash (the steps leaving the pass through its
\* exception handler are not counted).
C2_DestinationOnlyByVerifiedRename ==
    [][\A f \in DOMAIN manifest :
          ( /\ pc \in {"fetching", "streaming", "parts"}
            /\ pc' # "idle"
            /\ Exists(fs', f)
            /\ (~Exists(fs, f) \/ fs'[f] # fs[f]) )
          => /\ fs'[f].n = manifest[f].size
             /\ Truthy(manifest[f].hash) => HexDigest(fs'[f]) = manifest[f].hash
      ]_vars

\* C3: when a pass has failed, every file it deleted is back and every file
\* it downloaded or overwrote is as before the pass: the directory equals
\* its content at the start of the pass.
C3_FailedPassRestored ==
    outcome = "failed" => fs = preFs

\* C4: after a successful pass the local paths are exactly the manifest's
\* paths.
C4_LocalEqualsManifest ==
    outcome = "success" => DOMAIN fs = DOMAIN manifest

\* a successful pass that deleted a file and downloaded another
C4_Witness ==
    /\ outcome = "success"
    /\ deleted # {}
    /\ verified # {}

\* C5: once the comparison is made, to_delete, to_update and unchanged are
\* pairwise disjoint and their union is the set of all paths that are local
\* or remote.
C5_Partition ==
    Diffed =>
        /\ to_delete \cap to_update = {}
        /\ to_delete \cap unchanged = {}
        /\ to_update \cap unchanged = {}
        /\ to_delete \cup to_update \cup unchanged
               = DOMAIN preFs \cup DOMAIN manifest

\* a comparison whose three sets are all non-empty
C5_Witness ==
    /\ Diffed
    /\ to_delete # {}
    /\ to_update # {}
    /\ unchanged # {}

\* C6: a remote path is in to_update exactly when it is absent locally, or
\* its local size differs from the remote size, or the cached hash for it
\* differs from the remote hash; a local path is in to_delete exactly when
\* it is absent from the manifest.
C6_Classification ==
    Diffed =>
        /\ \A f \in DOMAIN manifest :
              f \in to_update <=>
                  \/ f \notin DOMAIN preFs
                  \/ preFs[f].n # manifest[f].size
                  \/ CacheGet(LoadedCache, f) # manifest[f].hash
        /\ \A f \in DOMAIN preFs :
              f \in to_delete <=> f \notin DOMAIN manifest

\* a comparison that puts a present file of the right size into to_update
\* because its cached hash is stale, and a local file into to_delete
C6_Witness ==
    /\ Diffed
    /\ to_delete # {}
    /\ \E f \in to_update :
          /\ f \in DOMAIN preFs
          /\ preFs[f].n = manifest[f].size
          /\ f \in DOMAIN LoadedCache
          /\ LoadedCache[f] # manifest[f].hash

\* C7: a pass that follows a successful pass, with nothing changed on the
\* server or in the directory in between, finds to_delete and to_update
\* empty.
C7_Idempotent ==
    (prevSuccess /\ Diffed) => (to_delete = {} /\ to_update = {})

\* the second pass has compared a non-empty manifest
C7_Witness ==
    /\ prevSuccess
    /\ Diffed
    /\ DOMAIN manifest # {}
    /\ unchanged = DOMAIN manifest

\* C8: when the first transfer of a pass begins, every file of to_delete has
\* been deleted.
C8_DeletesBeforeFetches ==
    started # {} => to_delete \subseteq deleted

\* a pass that had files to delete has begun a transfer
C8_Witness ==
    /\ started # {}
    /\ to_delete # {}
    /\ pc = "streaming"

\* C9: the cache file differs from what it was when the pass began only once
\* the pass has succeeded with every file of to_update verified; a failed or
\* cancelled pass leaves the cache file as it was.
C9_CacheWrittenOnSuccessOnly ==
    cacheFile # preCacheFile =>
        /\ outcome = "success"
        /\ \A f \in to_update :
              /\ f \in verified
              /\ verify_file_integrity(fs, f, manifest[f].hash)

\* a pass failed after a file had been verified and put into the in-memory cache
C9_Witness ==
    /\ outcome = "failed"
    /\ verified # {}
    /\ cacheFile = preCacheFile

\* C10: with snapshots enabled (the default), whenever a pass has deleted a
\* file or changed an existing one, the latest snapshot holds that file with
\* its content from before the pass.
C10_SnapshotBeforeMutation ==
    \A f \in DOMAIN preFs :
        (f \in deleted \/ (f \in started /\ (~Exists(fs, f) \/ fs[f] # preFs[f])))
        => /\ lastBackup # 0
           /\ f \in DOMAIN backups[lastBackup].files
           /\ backups[lastBackup].files[f] = preFs[f]

\* C11: after a failed pass has called rollback, every file stored in the
\* most recent snapshot, as a copy or as a link, is at its relative path with
\* the content it had when the snapshot was taken.
C11_RollbackRestoresSnapshot ==
    (outcome = "failed" /\ lastBackup # 0) =>
        \A f \in DOMAIN backups[lastBackup].files :
            /\ Exists(fs, f)
            /\ fs[f] = backups[lastBackup].files[f]

\* C12: from the comparison to the end of the pass, and after it, every file
\* of the unchanged set is in the directory with the content it had when the
\* pass began, whether the pass commits, fails and rolls back, or is
\* cancelled.
C12_UnchangedUntouched ==
    Diffed =>
        \A f \in unchanged :
            /\ Exists(fs, f)
            /\ fs[f] = preFs[f]

\* C13: no step of a dry-run pass, from the call of sync to its return after
\* the comparison, changes the disk: the root directory, the files in it,
\* the hash cache and its backup copy, and the snapshots stay as they are.
C13_DryRunReadOnly ==
    [][ ( \/ (pc = "idle" /\ pc' = "manifest" /\ dry_run')
          \/ (pc = "manifest" /\ dry_run) )
        => /\ rootExists' = rootExists
           /\ fs' = fs
           /\ cacheFile' = cacheFile
           /\ cacheBak' = cacheBak
           /\ backups' = backups
           /\ lastBackup' = lastBackup
      ]_vars

\* C14: while a pass is in flight with cancellation requested, every step
\* keeps the request in effect unless it ends the pass, starts no transfer
\* and does not commit.
C14_CancelStaysInEffect ==
    [][ (cancel_requested /\ pc # "idle")
        => /\ cancel_requested' \/ pc' = "idle"
           /\ started' \subseteq started
           /\ outcome' # "success"
      ]_vars

\* C15: the step in which a transfer observes the cancellation at a chunk
\* boundary leaves none of that transfer's partial output on disk: no
\* temporary file and no part file of the file being transferred, and no
\* destination file begun by a transfer that writes to the destination.
C15_CancelLeavesNoPartialOutput ==
    [][ (exc = "none" /\ exc' = "Exception")
        => /\ \A name \in DOMAIN fs' : name[1] = cur[1] => name[2] = ""
           /\ xfer.mode = "simple" => cur \notin DOMAIN fs'
      ]_vars

\* C16: a pass that went past the comparison ends with one of four outcomes
\* the caller can tell apart: success, cancelled (the cancellation was
\* observed), failed with the directory rolled back to its pre-pass content,
\* or failed with the rollback incomplete.
C16_ClassifiedOutcome ==
    (pc = "idle" /\ outcome \notin {"none", "dry_run", "manifest_error"}) =>
        \/ outcome = "success"
        \/ outcome = "cancelled" /\ exc = "Exception"
        \/ outcome = "failed_rolled_back" /\ fs = preFs
        \/ outcome = "failed_rollback_incomplete" /\ fs # preFs

\* C17: when the fetch of the manifest has failed, with a connection error
\* or a body that is not a mapping, nothing on disk has changed since the
\* call: the root directory, the files in it and the hash cache are as they
\* were, and no rollback has restored anything.
C17_ManifestErrorBeforeMutation ==
    outcome = "manifest_error" =>
        /\ rootExists = preRoot
        /\ fs = preFs
        /\ cacheFile = preCacheFile

\* C18: against a healthy server whose files are not empty, a pass that has
\* ended has ended in success if some local file differed in content from
\* the file the manifest lists under its path (with the same size or
\* another), and each such file then has the manifest's hash.
C18_RemoteWins ==
    ( /\ pc = "idle"
      /\ outcome \in {"success", "failed"}
      /\ \A g \in DOMAIN manifest : manifest[g].size > 0 ) =>
        \A f \in DOMAIN manifest :
            ( /\ Truthy(manifest[f].hash)
              /\ f \in DOMAIN preFs
              /\ HexDigest(preFs[f]) # manifest[f].hash )
            => /\ outcome = "success"
               /\ Exists(fs, f)
               /\ HexDigest(fs[f]) = manifest[f].hash

\* C19: a transfer that resumes from a temp file holding the first k bytes
\* of the served file, 0 < k < expected size, against a server that answers
\* "Range: bytes=k-" with bytes k.. of that file, places at the destination
\* exactly the bytes a full download of the file gives.
C19_ResumeEqualsFresh ==
    [][ ( /\ pc = "streaming" /\ pc' = "verify"
          /\ xfer.mode = "resume"
          /\ xfer.from > 0 /\ xfer.from < manifest[cur].size
          /\ xfer.base = Content(xfer.from, served[cur[1]].t)
          /\ xfer.seg = Segment(served[cur[1]].t, xfer.from, served[cur[1]].n) )
        => /\ Exists(fs', cur)
           /\ fs'[cur] = served[cur[1]]
           /\ ~Exists(fs', TempDest(cur[1])) ]_vars

\* a resumed transfer has placed its file: the temp file held a prefix of
\* the served bytes, the rest came by a ranged request
C19_Witness ==
    /\ pc = "verify" /\ xfer.mode = "resume"
    /\ xfer.from > 0 /\ xfer.from < manifest[cur].size
    /\ xfer.base = Content(xfer.from, served[cur[1]].t)
    /\ xfer.seg = Segment(served[cur[1]].t, xfer.from, served[cur[1]].n)
    /\ Exists(fs, cur) /\ fs[cur] = served[cur[1]]

C21_Retention ==
    /\ Cardinality(DOMAIN backups) <= max_backups
    /\ \A s \in DOMAIN backups : s > lastBackup - max_backups

\* C22: verify_file_integrity answers true exactly when the file exists,
\* can be read and its SHA-256 hex digest equals the expected hash without
\* regard to case; in every other case it answers false.
C22_VerifyExactly ==
    [][ pc = "verify"
        => ( (verified' = verified \cup {cur})
             <=> ( /\ Exists(fs, cur) /\ Readable(fs[cur])
                   /\ EqualIgnoreCase(HexDigest(fs[cur]), manifest[cur].hash) ) ) ]_vars

\* C23: load_cache never raises; with a primary file that is corrupt or
\* cannot be read it returns what the backup copy holds, and the empty
\* mapping when the backup copy is missing or corrupt as well.
C23_LoadCacheTolerant ==
    [][ LoadCache
        => /\ exc' = "none"
           /\ cacheFile.kind \in {"corrupt", "undecodable", "unreadable"}
              => cache' = IF cacheBak.kind = "dict" THEN json_load(cacheBak.d)
                          ELSE EmptyMap ]_vars

C25_RollbackBestEffort ==
    [][ \A failing \in SUBSET {Dest(q) : q \in Paths} :
          RollbackCall(failing)
          => /\ exc' = "none"
             /\ ( \/ lastBackup = 0
                  \/ ~backups[1].hasManifest
                  \/ backups[1].manifestDoc # "ok" ) => fs' = fs
             /\ \A f \in failing :
                    IF Exists(fs, f) THEN Exists(fs', f) /\ fs'[f] = fs[f]
                    ELSE ~Exists(fs', f) ]_vars

\* C26: every file for which DownloadManager reports success holds content
\* whose hash is the hash the manifest declares for its path.
C26_ManagerSuccessIsVerified ==
    \A f \in DOMAIN results :
        (results[f] /\ Truthy(manifest[f].hash))
        => /\ Exists(fs, f)
           /\ HexDigest(fs[f]) = manifest[f].hash

\* C27: for every expected size s >= 0 and every state of the destination
\* the strategy is: no transfer when the destination exists with size s;
\* otherwise simple for s < 1 MiB, resumable for 1 MiB <= s < 50 MiB, and
\* from 50 MiB on parallel when the probe reports Range support, resumable
\* when it does not.
C27_StrategySelection ==
    \A f \in DOMAIN manifest : \A supports_ranges \in BOOLEAN :
        LET file_size == manifest[f].size IN
        Strategy(fs, f, file_size, supports_ranges)
            = IF Exists(fs, f) /\ StatSize(fs, f) = file_size THEN "skip"
              ELSE IF file_size < SimpleLimit THEN "simple"
              ELSE IF file_size < ParallelLimit THEN "resume"
              ELSE IF supports_ranges THEN "parallel"
              ELSE "resume"

\* C28: for a manifest entry whose hash is null the hash gate is skipped:
\* when its transfer has returned and the destination has the expected
\* size, the file is accepted and the pass goes on.
C28_NullHashAccepted ==
    [][ ( /\ pc = "verify"
          /\ manifest[cur].hash = NullHash
          /\ Exists(fs, cur) /\ StatSize(fs, cur) = manifest[cur].size )
        => /\ verified' = verified \cup {cur}
           /\ outcome' # "failed" ]_vars

\* C29: the byte ranges of a parallel transfer of a file of size S are
\* contiguous, do not overlap and cover exactly the bytes 0..S-1; and when
\* every part has received the bytes of its range, the assembled file is
\* the served file, in whatever order the parts have finished.
C29_RangesAndAssembly ==
    [][ /\ pc' = "parts"
           => LET n == Cardinality(DOMAIN parts')
                  S == manifest[cur'].size
              IN /\ parts'[0].a = 0
                 /\ parts'[n - 1].e = S - 1
                 /\ \A i \in 0..(n - 1) : parts'[i].a <= parts'[i].e
                 /\ \A i \in 0..(n - 2) : parts'[i + 1].a = parts'[i].e + 1
        /\ ( /\ pc = "parts" /\ pc' = "verify"
              /\ \A i \in DOMAIN parts : parts[i].seg.t = served[cur[1]].t )
           => /\ Exists(fs', cur)
              /\ fs'[cur] = served[cur[1]] ]_vars

\* a file that was absent when the pass began has been assembled from its
\* parts: no single-stream transfer ran, the part files are gone
C29_Witness ==
    /\ pc = "verify" /\ xfer.mode = "none"
    /\ cur \notin DOMAIN preFs
    /\ manifest[cur].size >= ParallelLimit
    /\ Exists(fs, cur) /\ fs[cur] = served[cur[1]]
    /\ \A name \in DOMAIN fs : name[1] = cur[1] => name[2] = ""

\* C30: the number of byte ranges fetched concurrently for one file of
\* 50 MiB or more never exceeds the configured max_workers, for every
\* configured value from 1 on.
C30_PartsWithinWorkerCap ==
    \A workers \in 1..max_workers_limit :
        \A f \in DOMAIN manifest :
            manifest[f].size >= ParallelLimit
            => part_count_with(workers, manifest[f].size) <= workers

\* C31: for one file the manager makes at most retry_count transfer attempts
\* in total, and a worker that waits before its n-th retry waits
\* retry_delay * n.
C31_AttemptsWithinBudget ==
    /\ \A f \in DOMAIN hist : hist[f].attempts <= Setting("retry_count", 5)
    /\ \A w \in PoolThreads :
           threads[w].st = "sleep"
           => threads[w].delay = Setting("retry_delay", 1) * (threads[w].attempt + 1)

\* C32: when a file has failed with its retry budget used up, the dict that
\* download_files returns does not say success and the caller does not report
\* a successful synchronisation.
C32_FailedFileFailsBatch ==
    ( /\ reply.keys # {}
      /\ \E f \in DOMAIN hist :
             /\ hist[f].fate \in {"raised", "failed"}
             /\ hist[f].attempts > Setting("retry_count", 5) )
    => ~reply.success /\ outcome # "success"

\* C33: in a batch that is not cancelled every file is taken from the queue
\* exactly once, is in the hands of one thread only, and has an entry in the
\* returned results.
C33_OneWorkerOneResult ==
    /\ \A f \in DOMAIN hist : hist[f].taken <= 1
    /\ \A v, w \in ThreadIds :
           ( v # w /\ Alive(v) /\ Alive(w) /\ threads[v].file # NoFile )
           => threads[v].file # threads[w].file
    /\ ( reply.keys # {} /\ ~reply.cancelled )
       => \A f \in to_update :
              hist[f].taken = 1 /\ f \in DOMAIN reply.results

\* C34: once cancel is requested during a batch, download_files returns a
\* dict with cancelled = True, no further transfer attempt begins, and no
\* exception leaves the call.
C34_CancelledBatchReturns ==
    /\ (pc = "pool" /\ cancel_requested)
          ~> (pc = "idle" /\ "cancelled" \in reply.keys /\ reply.cancelled)
    /\ [][ (pc = "pool" /\ cancel_requested)
           => /\ \A f \in DOMAIN hist : hist'[f].attempts = hist[f].attempts
              /\ exc' = "none" ]_vars

C34_Witness ==
    /\ pc = "idle" /\ reply.cancelled
    /\ \E f, g \in to_update :
           /\ hist[f].taken = 1 /\ hist[f].attempts >= 1
           /\ f \in DOMAIN reply.results /\ ~reply.results[f]
           /\ ~Exists(fs, f)
           /\ hist[g].taken = 0 /\ g \notin DOMAIN reply.results

\* C35: the number of files being transferred at one time never exceeds the
\* max_workers of the profile in use.
C35_InFlightWithinMaxWorkers ==
    "max_workers" \in DOMAIN strategy
    => Cardinality({w \in ThreadIds :
                       threads[w].st \in {"attempt", "stream", "sleep"}})
          <= strategy["max_workers"]

\* C40: every request of a resumed transfer asks for the bytes from the
\* offset that equals the size of the partial file at that moment, and the
\* body of a 206 answer starts at that offset.
C40_RangeMatchesPartial ==
    ( pool.at = "resume" /\ threads[0].st = "stream" /\ threads[0].mode = "ab" )
    => /\ threads[0].offset = threads[0].had
       /\ threads[0].resp.status = 206 => threads[0].resp.seg.a = threads[0].had

C37_ScanSkipsPartialFiles ==
    /\ \A name \in to_delete : name[2] # ".tmp"
    /\ \A name \in deleted : name[2] # ".tmp"

\* C38: for a served file of size S, a request for the bytes a..b (b absent:
\* to the end) is answered 416 when a >= S or a > b, and otherwise 206 with
\* the end clamped to S - 1, the length e - a + 1 and exactly the bytes a..e.
C38_RangeAnswers ==
    acceptRanges
    => \A p \in DOMAIN served :
         LET S == served[p].n IN
         \A a \in {0, chunk_size, S - 1, S, S + 1} \cap Nat :
         \A b \in {-1, 0, chunk_size, S - 1, S, 2 * S} :
             LET r == ServerGet(p, a, b)
                 e == IF b < 0 \/ b >= S THEN S - 1 ELSE b
             IN IF a >= S \/ (b >= 0 /\ a > b)
                THEN r.status = 416
                ELSE /\ r.status = 206
                     /\ r.hasLength
                     /\ r.seg = Segment(served[p].t, a, e + 1)

\* C39: every call of get_cached_manifest returns, whatever the other
\* request threads do: with the cached manifest while it is no older than
\* cache_duration, with a newly generated one when it is older.
C39_CachedManifestReturns ==
    /\ \A c \in Callers :
           (callers[c].at = "cached_lock") ~> (callers[c].at = "idle")
    /\ [][ \A c \in Callers :
              (callers[c].at = "cached_check" /\ callers'[c].at = "idle")
              => clock - MANIFEST_TIMESTAMP <= cache_duration ]_vars

====
